---- MODULE Spec2Model ----
(***************************************************************************)
(* The document harvester of the reading-room archive:                     *)
(*   scripts/collect_articles_continuation.py  (walkers scrape_index_pages *)
(*       and scrape_from_url, harvester scrape_document)                   *)
(*   scripts/collect_articles.py               (the first walker)          *)
(* and the text extraction that follows it:                                *)
(*   scripts/ocr_easyocr.py, scripts/ocr_pdf.py (extract_text_robust,      *)
(*       extract_text_from_pdf, process_pdf, the sweep, retry and single   *)
(*       commands and the backfill of the ledger)                          *)
(* and the enrichment of the extracted texts:                              *)
(*   scripts/process_ocr_deepseek.py (chunk_text,                          *)
(*       process_text_with_deepseek, process_file, main)                   *)
(* One process at a time runs one of the three walkers over the shared     *)
(* settings/ and data/ directories.  The web site is the environment: what *)
(* a navigation returns is chosen nondeterministically at the navigation.  *)
(***************************************************************************)
EXTENDS Integers, Sequences, FiniteSets, TLC

(* ------------------------------ bounds --------------------------------- *)
\* document URLs are 1..NumUrls; URL 0 is an anchor outside the reading room
NumUrls == 3
\* listing pages of a year are 0..MaxPage
MaxPage == 1
\* the walk covers the years BaseYear..BaseYear+YearSpan
YearSpan == 1
\* anchors returned by one listing page
MaxAnchors == 1
\* attachment links on one document page
MaxLinks == 1
\* the PDF files of data/PDFs have the stems 1..NumPdfs
NumPdfs == 2
\* pages of one PDF document
MaxDocPages == 2
\* characters of one text
MaxText == 6
\* the window of the enrichment: process_file calls chunk_text with
\* chunk_size=8000 and overlap=500; the model scales the window with the texts
ChunkSize == 3
Overlap == 1
\* the windows chunk_text is tried with on its own: chunk_size up to MaxChunk
MaxChunk == 4

(* ------------------------- program constants --------------------------- *)
\* default start_year of both walkers
BaseYear == 2012
max_forced_reloads == 3

MaxYear == BaseYear + YearSpan
Years == BaseYear..MaxYear
Pages == 0..MaxPage
DocUrls == 1..NumUrls
Urls == 0..NumUrls
\* an absent key, file or value
NoEntry == 0 - 1
NoUrl == NoEntry
\* A PDF file name is a stem and an extension.  The sweep lists every name
\* that ends in ".pdf" whatever its case; the files of the harvester end in
\* ".pdf", a file put there by hand may end in ".PDF" (here: the even stems).
PdfExts == {"pdf", "PDF"}
PdfNames == [stem : 1..NumPdfs, ext : PdfExts]
ExtOf(s) == IF s % 2 = 0 THEN "PDF" ELSE "pdf"
PdfFiles == {[stem |-> s, ext |-> ExtOf(s)] : s \in 1..NumPdfs}
NoPdf == [stem |-> 0, ext |-> "pdf"]
\* os.path.splitext(filename)[0] + ".txt": text files are named by the stem
TextNames == 1..NumPdfs
text_filename(f) == f.stem
\* txt_file.replace('.txt', '.pdf') of backpropagate_completed_files
pdf_filename_of(t) == [stem |-> t, ext |-> "pdf"]

(* ------------------------------ the site ------------------------------- *)
\* href.startswith("https://www.cia.gov/readingroom/")
IsReadingRoomUrl(u) == u # 0

\* What the resolved URL of a listing navigation looks like to the code:
\*   "search_site"  contains "search/site"
\*   "search_other" contains "search" (any case) but not "search/site"
\*   "root"         the reading-room root page (ends with /readingroom)
\*   "other"        anything else
UrlKinds == {"search_site", "search_other", "root", "other"}
HasSearchSite(k) == k = "search_site"
HasSearch(k) == k \in {"search_site", "search_other"}
IsRootUrl(k) == k = "root"

\* A loaded listing page: the unavailable marker in the body, the resolved
\* URL, whether the title is the root archive title, whether the body holds
\* the root archive marker.  page.content() holds the <title> element, so a
\* root title puts the marker in the body.
ListingPages ==
  {p \in [unavail : BOOLEAN, url : UrlKinds, title_root : BOOLEAN, root_marker : BOOLEAN] :
      p.title_root => p.root_marker}
NoPage == [unavail |-> FALSE, url |-> "other", title_root |-> FALSE, root_marker |-> FALSE]

RECURSIVE SeqsUpTo(_, _)
SeqsUpTo(S, n) ==
  IF n = 0 THEN {<<>>}
  ELSE LET shorter == SeqsUpTo(S, n - 1)
       IN shorter \cup {Append(s, x) : s \in {t \in shorter : Len(t) = n - 1}, x \in S}
AnchorLists == SeqsUpTo(Urls, MaxAnchors)

\* title of a document page: every document has a title of its own; the
\* titles of documents 1 and 2 differ only in characters that slugify removes
TitleOf(u) == u
\* re.search(r'(CIA-RDP\S+)', url): documents 1 and 2 have no RDP number in
\* the URL, later ones do
RdpInUrl(u) == IF u <= 2 THEN NoEntry ELSE u
\* the 'Document Number (FOIA) /ESDN (CREST)' field, absent for every document
RdpInMetadata(u) == NoEntry

\* re.sub(r'[^\w\-_. ]', '', text).strip().replace(" ", "_"): titles 1 and 2
\* have the same slug, every other title one of its own
slugify(title) == IF title <= 2 THEN 1 ELSE title - 1

doc_id(u) ==
  IF RdpInUrl(u) # NoEntry THEN <<"rdp", RdpInUrl(u)>>
  ELSE IF RdpInMetadata(u) # NoEntry THEN <<"rdp", RdpInMetadata(u)>>
  ELSE <<"slug", slugify(TitleOf(u))>>

DocIds == {doc_id(u) : u \in DocUrls}

\* f"{slugify(title)}_{doc_id}{suffix}.pdf"
pdf_filename(u, idx, n) == <<slugify(TitleOf(u)), doc_id(u), IF n > 1 THEN idx ELSE 0>>
FileNames == {pdf_filename(u, i, n) : u \in DocUrls, i \in 1..MaxLinks, n \in 1..MaxLinks}
NoFile == <<>>
\* content fetched from link idx of document u
PdfContent(u, idx) == <<u, idx>>

NoRecord == [url |-> NoUrl, pdf_urls |-> 0, downloaded |-> FALSE, downloaded_files |-> <<>>]

(* ------------------------------- state --------------------------------- *)
VARIABLES
  \* in-memory sets of the running process
  visited, unavailables,
  \* files under settings/ and data/
  VISITED_LOG, UNAVAILABLE_LOG, SCRAPE_PROGRESS, PAGINATION_STATE,
  STATUS_LOG, META_DIR, PDF_DIR,
  \* the walker
  mode,               \* the walker of the current or the last run: "year" (scrape_index_pages),
                      \* "url" (scrape_from_url), "orig" (collect_articles.py), "none" before the first
  wpc,                \* position of the walker
  start_year, page_num,
  start_url,          \* [page, year] parsed from the resume URL, NoEntry when absent
  used_original_url,
  forced_reload,
  root_polled,        \* the URL poll saw the root page on an earlier attempt for this listing page
  search_url,         \* the listing URL last navigated to: [year, page]
  page,               \* the listing page as loaded
  anchors,            \* anchors of the page still to be harvested
  \* the harvester (scrape_document)
  dpc, url, pdf_links, idx, downloaded, downloaded_files,
  requested,          \* the last download_pdf call issued requests.get
  \* what the last walker decision and the last harvest were
  decision, outcome,
  \* the text extraction (ocr_easyocr.py, ocr_pdf.py)
  OCR_PROGRESS,       \* the ledger file: status per PDF file name
  TEXT_DIR,           \* the output text files
  engine,             \* the script that runs: "easyocr" or "tesseract"
  opc,                \* position of process_pdf
  pdf,                \* the PDF file being processed
  n_pages,            \* len(doc)
  text_content,       \* the page texts collected so far
  method_no,          \* the method extract_text_robust tries next on the current page
  config_no,          \* ocr_pdf.py: the OCR configuration tried next
  invoked,            \* the methods invoked on the current page, in order, and what each gave
  ocr_result,         \* what extract_text_from_pdf returned
  pdf_dir,            \* the PDF files in data/PDFs
  verb,               \* the command of the running extraction: "sweep", "retry", "single"
  to_process,         \* the files the loop of the command has still to take
  named,              \* the file name given to the "single" command
  \* the enrichment (process_ocr_deepseek.py)
  PROGRESS_FILE,      \* the progress map on disk: "completed" or "failed" per text file
  OUTPUT_DIR,         \* the enriched records
  epc,                \* position of main and process_file
  enrich_progress,    \* the progress map of main
  input_files,        \* the files the loop of main has still to take
  txt_file,           \* filename: the text file being processed
  metadata,           \* what load_metadata returned
  clean_ocr_text,     \* the text without its header
  window,             \* chunk_size and overlap of the call of chunk_text
  chunks,             \* what chunk_text returned
  corrected_chunks,   \* the chunks the backend has answered
  structured_data,    \* what process_text_with_deepseek returned last
  success,            \* what process_file returned
  posted,             \* the chunks of this file posted to the backend, in order
  response,           \* what the backend answered to the last request
  sent_in_runs,       \* the requests the backend has had: per text file, whether "none",
                      \* "one" or "several" runs of main have posted a chunk of it
  \* a second harvester process on the same settings/ and data/ directories
  other_pc,           \* "idle" until it is started, then "run"
  other_visited       \* its set `visited`

diskVars == <<VISITED_LOG, UNAVAILABLE_LOG, SCRAPE_PROGRESS, PAGINATION_STATE,
              STATUS_LOG, META_DIR, PDF_DIR>>
setVars == <<visited, unavailables>>
walkVars == <<mode, wpc, start_year, page_num, start_url, used_original_url,
              forced_reload, root_polled, search_url, page, anchors>>
docVars == <<dpc, url, pdf_links, idx, downloaded, downloaded_files, requested>>
vars == <<visited, unavailables, VISITED_LOG, UNAVAILABLE_LOG, SCRAPE_PROGRESS,
          PAGINATION_STATE, STATUS_LOG, META_DIR, PDF_DIR, mode, wpc, start_year,
          page_num, start_url, used_original_url, forced_reload, root_polled, search_url, page,
          anchors, dpc, url, pdf_links, idx, downloaded, downloaded_files,
          requested, decision, outcome,
          OCR_PROGRESS, TEXT_DIR, engine, opc, pdf, n_pages, text_content,
          method_no, config_no, invoked, ocr_result, pdf_dir, verb, to_process, named,
          PROGRESS_FILE, OUTPUT_DIR, epc, enrich_progress, input_files, txt_file,
          metadata, clean_ocr_text, window, chunks, corrected_chunks,
          structured_data, success, posted, response, sent_in_runs, other_pc,
          other_visited>>

harvestVars == <<visited, unavailables, VISITED_LOG, UNAVAILABLE_LOG, SCRAPE_PROGRESS,
                 PAGINATION_STATE, STATUS_LOG, META_DIR, PDF_DIR, mode, wpc, start_year,
                 page_num, start_url, used_original_url, forced_reload, root_polled,
                 search_url, page, anchors, dpc, url, pdf_links, idx, downloaded,
                 downloaded_files, requested, decision, outcome, other_pc, other_visited>>
otherVars == <<other_pc, other_visited>>
runVars == <<pdf_dir, verb, to_process, named>>
ocrVars == <<OCR_PROGRESS, TEXT_DIR, engine, opc, pdf, n_pages, text_content,
             method_no, config_no, invoked, ocr_result, runVars>>
fileVars == <<txt_file, metadata, clean_ocr_text, window, chunks, corrected_chunks,
              structured_data, success, posted, response>>
enrichVars == <<PROGRESS_FILE, OUTPUT_DIR, epc, enrich_progress, input_files, fileVars,
                sent_in_runs>>

NoText == 0
NoMetadata == "none"
NoWindow == [chunk_size |-> 0, overlap |-> 0]
NoData == [kind |-> "None", publication_date |-> "None", era |-> "None", body |-> "None"]
NoReply == [kind |-> "None", publication_date |-> "absent", era |-> "absent", body |-> "absent"]
NoOutput == [body |-> <<>>, publication_date |-> "None", era |-> "None"]

NoSearchUrl == [year |-> NoEntry, page |-> NoEntry]
NoStartUrl == [page |-> NoEntry, year |-> NoEntry]

InitBase ==
  /\ visited = {}
  /\ unavailables = {}
  /\ VISITED_LOG = {}
  /\ UNAVAILABLE_LOG = {}
  /\ SCRAPE_PROGRESS = [y \in Years |-> NoEntry]
  /\ PAGINATION_STATE = NoEntry
  /\ STATUS_LOG = <<>>
  /\ META_DIR = [d \in DocIds |-> NoRecord]
  /\ PDF_DIR = [f \in FileNames |-> NoFile]
  /\ mode = "none"
  /\ wpc = "idle"
  /\ start_year = BaseYear
  /\ page_num = 0
  /\ start_url = NoStartUrl
  /\ used_original_url = FALSE
  /\ forced_reload = 0
  /\ root_polled = FALSE
  /\ search_url = NoSearchUrl
  /\ page = NoPage
  /\ anchors = <<>>
  /\ dpc = "none"
  /\ url = NoUrl
  /\ pdf_links = 0
  /\ idx = 0
  /\ downloaded = FALSE
  /\ downloaded_files = <<>>
  /\ requested = FALSE
  /\ decision = "none"
  /\ outcome = "none"
  /\ OCR_PROGRESS = [f \in PdfNames |-> "none"]
  /\ engine = "none"
  /\ opc = "idle"
  /\ pdf = NoPdf
  /\ n_pages = 0
  /\ text_content = <<>>
  /\ method_no = 0
  /\ config_no = 0
  /\ invoked = <<>>
  /\ ocr_result = "none"
  /\ pdf_dir = PdfFiles
  /\ verb = "none"
  /\ to_process = <<>>
  /\ named = NoPdf
  /\ PROGRESS_FILE = [t \in TextNames |-> "none"]
  /\ OUTPUT_DIR = [t \in TextNames |-> NoOutput]
  /\ enrich_progress = [t \in TextNames |-> "none"]
  /\ input_files = <<>>
  /\ txt_file = NoText
  /\ metadata = NoMetadata
  /\ window = NoWindow
  /\ chunks = <<>>
  /\ corrected_chunks = <<>>
  /\ structured_data = NoData
  /\ success = FALSE
  /\ posted = <<>>
  /\ response = NoReply
  /\ sent_in_runs = [t \in TextNames |-> "none"]
  /\ other_pc = "idle"
  /\ other_visited = {}

\* Nothing has been harvested, extracted or enriched yet.
Init ==
  /\ InitBase
  /\ TEXT_DIR = [t \in TextNames |-> "absent"]
  /\ epc = "idle"
  /\ clean_ocr_text = <<>>

(* --------------------------- file helpers ------------------------------ *)
\* (a bug to tell apart: the file is not read back, the other years are lost)
save_progress_drops_others(progress, year, pg) ==
  [y \in Years |-> IF y = year THEN pg ELSE NoEntry]

\* progress[str(year)] = page; the other entries are read back and kept
save_progress(progress, year, pg) == [progress EXCEPT ![year] = pg]

\* progress.get(str(year), 0)
get_progress(progress, year) == IF progress[year] = NoEntry THEN 0 ELSE progress[year]

\* json.load(f).get("last_page", 0), 0 without the file
load_last_page(state) == IF state = NoEntry THEN 0 ELSE state

\* the locals of the harvester between two documents
DocIdle ==
  /\ dpc' = "none"
  /\ url' = NoUrl
  /\ pdf_links' = 0
  /\ idx' = 0
  /\ downloaded' = FALSE
  /\ downloaded_files' = <<>>
  /\ requested' = FALSE

\* returning from scrape_document to the anchor loop
DocReturn(result) ==
  /\ DocIdle
  /\ outcome' = result

\* the process is gone: nothing of its memory is left
MemoryGone ==
  /\ visited' = {}
  /\ unavailables' = {}
  /\ used_original_url' = FALSE
  /\ forced_reload' = 0
  /\ page' = NoPage
  /\ anchors' = <<>>
  /\ root_polled' = FALSE
  /\ DocIdle

\* break / return out of the walk loop, browser.close(), process exit
EndRun(reason) ==
  /\ wpc' = "done"
  /\ decision' = reason
  /\ outcome' = "none"
  /\ MemoryGone
  /\ UNCHANGED <<mode, start_year, page_num, start_url, search_url>>

Running == wpc \notin {"idle", "done"}

(* ----------------------------- entry points ---------------------------- *)
\* module import (the sets are loaded from their files), then
\* scrape_index_pages(p, start_year=y): start_page = get_progress(start_year)
StartYearMode(y) ==
  /\ ~Running
  /\ visited' = VISITED_LOG
  /\ unavailables' = UNAVAILABLE_LOG
  /\ mode' = "year"
  /\ start_year' = y
  /\ page_num' = get_progress(SCRAPE_PROGRESS, y)
  /\ start_url' = NoStartUrl
  /\ search_url' = NoSearchUrl
  /\ wpc' = "loop"
  /\ decision' = "start"
  /\ outcome' = "none"
  /\ UNCHANGED <<used_original_url, forced_reload, page, anchors, root_polled>>
  /\ UNCHANGED docVars
  /\ UNCHANGED diskVars
  /\ UNCHANGED <<ocrVars, enrichVars, otherVars>>

StartUrls == [page : Pages \cup {NoEntry}, year : Years \cup {NoEntry}]

\* scrape_from_url(p, start_url): page and year are read off the URL, the
\* cursor is written once before the loop
StartFromUrl(su) ==
  /\ ~Running
  /\ visited' = VISITED_LOG
  /\ unavailables' = UNAVAILABLE_LOG
  /\ mode' = "url"
  /\ start_url' = su
  /\ page_num' = (IF su.page # NoEntry THEN su.page ELSE 0)
  /\ start_year' = (IF su.year # NoEntry THEN su.year ELSE BaseYear)
  /\ SCRAPE_PROGRESS' = save_progress(SCRAPE_PROGRESS, start_year', page_num')
  /\ used_original_url' = FALSE
  /\ search_url' = NoSearchUrl
  /\ wpc' = "loop"
  /\ decision' = "start"
  /\ outcome' = "none"
  /\ UNCHANGED <<forced_reload, page, anchors, root_polled>>
  /\ UNCHANGED docVars
  /\ UNCHANGED <<VISITED_LOG, UNAVAILABLE_LOG, PAGINATION_STATE, STATUS_LOG, META_DIR, PDF_DIR>>
  /\ UNCHANGED <<ocrVars, enrichVars, otherVars>>

\* collect_articles.py: only the visited set exists; start_page = load_last_page()
StartOrig ==
  /\ ~Running
  /\ visited' = VISITED_LOG
  /\ unavailables' = {}
  /\ mode' = "orig"
  /\ start_year' = BaseYear
  /\ page_num' = load_last_page(PAGINATION_STATE)
  /\ start_url' = NoStartUrl
  /\ search_url' = NoSearchUrl
  /\ wpc' = "loop"
  /\ decision' = "start"
  /\ outcome' = "none"
  /\ UNCHANGED <<used_original_url, forced_reload, page, anchors, root_polled>>
  /\ UNCHANGED docVars
  /\ UNCHANGED diskVars
  /\ UNCHANGED <<ocrVars, enrichVars, otherVars>>

\* the process is interrupted from outside at any point of a run
Crash ==
  /\ Running
  /\ wpc' = "idle"
  /\ UNCHANGED mode
  /\ start_year' = BaseYear
  /\ page_num' = 0
  /\ start_url' = NoStartUrl
  /\ search_url' = NoSearchUrl
  /\ decision' = "crash"
  /\ outcome' = "none"
  /\ MemoryGone
  /\ UNCHANGED diskVars
  /\ UNCHANGED <<ocrVars, enrichVars, otherVars>>

(* ------------------------------ the walkers ---------------------------- *)
\* (a bug to tell apart: the cursor is not written before the fetch)
cursor_not_written(progress, m, year, pg) == progress

\* the cursor file as the top of the walk loop leaves it, before the fetch:
\* save_progress(start_year, page_num) in both continuation walkers
cursor_before_fetch(progress, m, year, pg) ==
  IF m = "orig" THEN progress ELSE save_progress(progress, year, pg)

\* the listing URL built from (start_year, page_num)
ListingUrl(year, pg) == [year |-> year, page |-> pg]

\* Top of the walk loop.  Both continuation walkers write the cursor first
\* (save_progress(start_year, page_num)) and then form search_url;
\* scrape_from_url uses the resume URL on the first iteration and whenever
\* used_original_url has been reset.  The first walker writes nothing here.
LoopTop ==
  /\ wpc = "loop"
  /\ SCRAPE_PROGRESS' = cursor_before_fetch(SCRAPE_PROGRESS, mode, start_year, page_num)
  /\ search_url' = (IF mode = "url" /\ ~used_original_url
                    THEN [year |-> start_url.year, page |-> start_url.page]
                    ELSE ListingUrl(start_year, page_num))
  /\ used_original_url' = (IF mode = "url" THEN TRUE ELSE used_original_url)
  /\ forced_reload' = 0
  /\ root_polled' = FALSE
  /\ wpc' = "goto"
  /\ decision' = "fetch"
  /\ UNCHANGED <<mode, start_year, page_num, start_url, page, anchors, outcome>>
  /\ UNCHANGED setVars
  /\ UNCHANGED docVars
  /\ UNCHANGED <<VISITED_LOG, UNAVAILABLE_LOG, PAGINATION_STATE, STATUS_LOG, META_DIR, PDF_DIR>>
  /\ UNCHANGED <<ocrVars, enrichVars, otherVars>>

\* page.goto(search_url) of scrape_index_pages (both files), inside the try
GotoListing ==
  /\ wpc = "goto"
  /\ mode \in {"year", "orig"}
  /\ \E pg \in (IF mode = "year" THEN ListingPages ELSE {NoPage}) :
       /\ page' = pg
       /\ wpc' = "check"
       /\ decision' = "loaded"
  /\ UNCHANGED <<mode, start_year, page_num, start_url, used_original_url,
                 forced_reload, root_polled, search_url, anchors, outcome>>
  /\ UNCHANGED setVars
  /\ UNCHANGED docVars
  /\ UNCHANGED diskVars
  /\ UNCHANGED <<ocrVars, enrichVars, otherVars>>

\* (a bug to tell apart: the failed page is stepped over in the cursor file)
ListingException_moves_cursor ==
  /\ mode \in {"year", "orig"}
  /\ wpc \in {"goto", "check", "anchors"}
  /\ EndRun("exception")
  /\ SCRAPE_PROGRESS' = save_progress(SCRAPE_PROGRESS, start_year, page_num + 1)
  /\ UNCHANGED <<VISITED_LOG, UNAVAILABLE_LOG, PAGINATION_STATE, STATUS_LOG, META_DIR, PDF_DIR>>
  /\ UNCHANGED <<ocrVars, enrichVars, otherVars>>

\* an exception anywhere in the try of scrape_index_pages: except ... break
ListingException ==
  /\ mode \in {"year", "orig"}
  /\ wpc \in {"goto", "check", "anchors"}
  /\ EndRun("exception")
  /\ UNCHANGED diskVars
  /\ UNCHANGED <<ocrVars, enrichVars, otherVars>>

\* what one attempt of the forced-reload loop of scrape_from_url sees: the
\* URL kind the poll settles on, or an exception of page.goto
PollResults == UrlKinds \cup {"exception"}

\* after this attempt the loop is left with the intended URL seen
PollSeen(r) == r # "exception" /\ HasSearchSite(r)

\* (a bug to tell apart: the first failed attempt already ends the run)
PollEndsRun_at_once(r, attempt) == ~PollSeen(r)

\* this attempt ends the run: an exception on the last attempt returns, and
\* a loop that runs out of attempts takes its else branch
PollEndsRun(r, attempt) == ~PollSeen(r) /\ attempt = max_forced_reloads - 1

\* One attempt of `for forced_reload in range(max_forced_reloads)`: goto,
\* poll page.url (a poll that sees the root page navigates again and gives
\* the attempt up; one that sees neither for 2 s gives it up too).
PollAttempt ==
  /\ wpc = "goto"
  /\ mode = "url"
  /\ forced_reload < max_forced_reloads
  /\ \E r \in PollResults :
       IF PollSeen(r)
       THEN \* the page as the checks after the loop read it; page.url is
            \* read again there and may have moved since the poll
            /\ \E pg \in ListingPages : page' = pg
            /\ wpc' = "check"
            /\ decision' = "loaded"
            /\ UNCHANGED <<forced_reload, root_polled, visited, unavailables,
                           used_original_url, anchors, outcome>>
            /\ UNCHANGED docVars
       ELSE IF PollEndsRun(r, forced_reload)
            THEN EndRun(IF r = "exception" THEN "load_failed" ELSE "redirect_terminal")
            ELSE /\ forced_reload' = forced_reload + 1
                 /\ root_polled' = (root_polled \/ (r # "exception" /\ IsRootUrl(r)))
                 /\ decision' = (IF r = "exception" THEN "load_exception" ELSE "reload")
                 \* the page the navigation resolved to, with the unavailable
                 \* marker or without; the loop reads nothing but its URL
                 /\ IF r = "exception" THEN UNCHANGED page
                    ELSE \E marker \in BOOLEAN :
                           page' = [NoPage EXCEPT !.url = r, !.unavail = marker]
                 /\ UNCHANGED <<wpc, visited, unavailables,
                                used_original_url, anchors, outcome>>
                 /\ UNCHANGED docVars
  /\ UNCHANGED <<mode, start_year, page_num, start_url, search_url>>
  /\ UNCHANGED diskVars
  /\ UNCHANGED <<ocrVars, enrichVars, otherVars>>

\* check_page_unavailable(page) on the listing page (the first walker has none)
ListingUnavailable == mode # "orig" /\ page.unavail

\* scrape_index_pages only: "search/site" not in current_url
RedirectedAway == mode = "year" /\ ~HasSearchSite(page.url)

\* root title and "search" not in the URL (both continuation walkers)
RootTitle == mode # "orig" /\ page.title_root /\ ~HasSearch(page.url)

\* scrape_index_pages: redirected off the search path: break
RedirectBreak ==
  /\ wpc = "check"
  /\ ~ListingUnavailable
  /\ RedirectedAway
  /\ EndRun("redirect_end")
  /\ UNCHANGED diskVars
  /\ UNCHANGED <<ocrVars, enrichVars, otherVars>>

\* start_year += 1; page_num = 0; save_progress; continue
\* (scrape_from_url also resets used_original_url)
Rollover(reason) ==
  /\ start_year < MaxYear
  /\ start_year' = start_year + 1
  /\ page_num' = 0
  /\ used_original_url' = (IF mode = "url" THEN FALSE ELSE used_original_url)
  /\ SCRAPE_PROGRESS' = save_progress(SCRAPE_PROGRESS, start_year', page_num')
  /\ wpc' = "loop"
  /\ page' = NoPage
  /\ anchors' = <<>>
  /\ forced_reload' = 0
  /\ root_polled' = FALSE
  /\ decision' = reason
  /\ UNCHANGED <<mode, start_url, search_url, outcome>>
  /\ UNCHANGED setVars
  /\ UNCHANGED docVars
  /\ UNCHANGED <<VISITED_LOG, UNAVAILABLE_LOG, PAGINATION_STATE, STATUS_LOG, META_DIR, PDF_DIR>>

\* (a bug to tell apart: an unavailable listing page is taken for the year's end)
SkipUnavailablePage_as_year_end ==
  /\ wpc = "check"
  /\ ListingUnavailable
  /\ Rollover("skip_unavailable")
  /\ UNCHANGED <<ocrVars, enrichVars, otherVars>>

\* the listing page is unavailable: page_num += 1, save_progress, continue
SkipUnavailablePage ==
  /\ wpc = "check"
  /\ ListingUnavailable
  /\ page_num < MaxPage
  /\ page_num' = page_num + 1
  /\ SCRAPE_PROGRESS' = save_progress(SCRAPE_PROGRESS, start_year, page_num')
  /\ wpc' = "loop"
  /\ page' = NoPage
  /\ forced_reload' = 0
  /\ root_polled' = FALSE
  /\ decision' = "skip_unavailable"
  /\ UNCHANGED <<mode, start_year, start_url, used_original_url, search_url, anchors, outcome>>
  /\ UNCHANGED setVars
  /\ UNCHANGED docVars
  /\ UNCHANGED <<VISITED_LOG, UNAVAILABLE_LOG, PAGINATION_STATE, STATUS_LOG, META_DIR, PDF_DIR>>
  /\ UNCHANGED <<ocrVars, enrichVars, otherVars>>

\* the page title is the root archive title and the URL is no search URL
TitleRollover ==
  /\ wpc = "check"
  /\ ~ListingUnavailable
  /\ ~RedirectedAway
  /\ RootTitle
  /\ Rollover("title_rollover")
  /\ UNCHANGED <<ocrVars, enrichVars, otherVars>>

\* page.evaluate(...) for the document anchors
EvaluateAnchors(lists) ==
  /\ wpc = "check"
  /\ ~ListingUnavailable
  /\ ~RedirectedAway
  /\ ~RootTitle
  /\ \E a \in lists : anchors' = a
  /\ wpc' = "anchors"
  /\ forced_reload' = 0
  /\ root_polled' = FALSE
  /\ decision' = "anchors"
  /\ UNCHANGED <<mode, start_year, page_num, start_url, used_original_url,
                 search_url, page, outcome>>
  /\ UNCHANGED setVars
  /\ UNCHANGED docVars
  /\ UNCHANGED diskVars
  /\ UNCHANGED <<ocrVars, enrichVars, otherVars>>

\* (a bug to tell apart: every page without anchors counts as the year's end)
RootMarker_always == mode # "orig"

\* "Freedom of Information Act Electronic Reading Room" in page.content()
\* (the first walker does not look)
RootMarker == mode # "orig" /\ page.root_marker

\* no anchors, root marker in the body: next year
MarkerRollover ==
  /\ wpc = "anchors"
  /\ anchors = <<>>
  /\ RootMarker
  /\ Rollover("marker_rollover")
  /\ UNCHANGED <<ocrVars, enrichVars, otherVars>>

\* no anchors, no root marker: break
NoLinksBreak ==
  /\ wpc = "anchors"
  /\ anchors = <<>>
  /\ ~RootMarker
  /\ EndRun("no_links")
  /\ UNCHANGED diskVars
  /\ UNCHANGED <<ocrVars, enrichVars, otherVars>>

\* anchors found: into the loop over them
BeginHarvest ==
  /\ wpc = "anchors"
  /\ anchors # <<>>
  /\ wpc' = "harvest"
  /\ page' = NoPage
  /\ decision' = "harvest"
  /\ UNCHANGED <<mode, start_year, page_num, start_url, used_original_url,
                 forced_reload, root_polled, search_url, anchors, outcome>>
  /\ UNCHANGED setVars
  /\ UNCHANGED docVars
  /\ UNCHANGED diskVars
  /\ UNCHANGED <<ocrVars, enrichVars, otherVars>>

\* the anchors of the page are done: page_num += 1 (the first walker writes
\* save_last_page(page_num + 1) and takes the next page of its range)
NextPage ==
  /\ wpc = "harvest"
  /\ anchors = <<>>
  /\ dpc = "none"
  /\ page_num < MaxPage
  /\ page_num' = page_num + 1
  /\ PAGINATION_STATE' = (IF mode = "orig" THEN page_num + 1 ELSE PAGINATION_STATE)
  /\ wpc' = "loop"
  /\ decision' = "advance"
  /\ outcome' = "none"
  /\ UNCHANGED <<mode, start_year, start_url, used_original_url, forced_reload,
                 root_polled, search_url, page, anchors>>
  /\ UNCHANGED setVars
  /\ UNCHANGED docVars
  /\ UNCHANGED <<VISITED_LOG, UNAVAILABLE_LOG, SCRAPE_PROGRESS, STATUS_LOG, META_DIR, PDF_DIR>>
  /\ UNCHANGED <<ocrVars, enrichVars, otherVars>>

(* ---------------------------- the harvester ---------------------------- *)
\* (a bug to tell apart: the visited test is missing)
AlreadyKnown_forgets_visited(u) == mode # "orig" /\ u \in unavailables

\* (a bug to tell apart: the unavailable test is missing)
AlreadyKnown_forgets_unavailables(u) == u \in visited

\* the membership tests at the head of scrape_document: the first walker's
\* version knows the visited set only
AlreadyKnown(u) == u \in visited \/ (mode # "orig" /\ u \in unavailables)

walkFrame == <<mode, wpc, start_year, page_num, start_url, used_original_url,
               forced_reload, root_polled, search_url, page, decision>>

\* for href in anchors: if href.startswith(...): scrape_document(page, href),
\* up to the point where scrape_document has passed its membership tests
ScrapeDocument ==
  /\ wpc = "harvest"
  /\ dpc = "none"
  /\ anchors # <<>>
  /\ anchors' = Tail(anchors)
  /\ LET href == Head(anchors) IN
       IF ~IsReadingRoomUrl(href) THEN DocReturn("filtered")
       ELSE IF AlreadyKnown(href) THEN DocReturn("skipped")
       ELSE /\ dpc' = "load"
            /\ url' = href
            /\ outcome' = "visiting"
            /\ UNCHANGED <<pdf_links, idx, downloaded, downloaded_files, requested>>
  /\ UNCHANGED walkFrame
  /\ UNCHANGED setVars
  /\ UNCHANGED diskVars
  /\ UNCHANGED <<ocrVars, enrichVars, otherVars>>

\* page.goto(url), title, pdf_links and metadata are read: n attachment links
DocLoaded(counts) ==
  /\ dpc = "load"
  /\ \E n \in counts :
       /\ pdf_links' = n
       /\ idx' = 1
       /\ dpc' = (IF n = 0 THEN "mark" ELSE "download")
  /\ UNCHANGED <<url, downloaded, downloaded_files, requested, anchors, outcome>>
  /\ UNCHANGED walkFrame
  /\ UNCHANGED setVars
  /\ UNCHANGED diskVars
  /\ UNCHANGED <<ocrVars, enrichVars, otherVars>>

\* the document page carries the unavailable marker (continuation only):
\* unavailables.add(url); save_unavailables(); return.  A failing save
\* leaves the file as it was and is caught by the except of scrape_document.
DocUnavailable(io) ==
  /\ dpc = "load"
  /\ mode # "orig"
  /\ unavailables' = unavailables \cup {url}
  /\ \E saved \in io :
       /\ UNAVAILABLE_LOG' = (IF saved THEN unavailables' ELSE UNAVAILABLE_LOG)
       /\ DocReturn(IF saved THEN "unavailable" ELSE "exception")
  /\ UNCHANGED <<visited, anchors>>
  /\ UNCHANGED walkFrame
  /\ UNCHANGED <<VISITED_LOG, SCRAPE_PROGRESS, PAGINATION_STATE, STATUS_LOG, META_DIR, PDF_DIR>>
  /\ UNCHANGED <<ocrVars, enrichVars, otherVars>>

\* page.goto, page.title or page.evaluate raises: caught, return
DocLoadException ==
  /\ dpc = "load"
  /\ DocReturn("exception")
  /\ UNCHANGED anchors
  /\ UNCHANGED walkFrame
  /\ UNCHANGED setVars
  /\ UNCHANGED diskVars
  /\ UNCHANGED <<ocrVars, enrichVars, otherVars>>

\* os.path.exists(filename)
download_pdf_exists(dir, filename) == dir[filename] # NoFile

\* (a bug to tell apart: a failed request is reported as a success)
download_pdf_reports_success(dir, filename, content, fetched) ==
  [ok |-> TRUE,
   requested |-> ~download_pdf_exists(dir, filename),
   dir |-> IF ~download_pdf_exists(dir, filename) /\ fetched
           THEN [dir EXCEPT ![filename] = content] ELSE dir]

\* (a bug to tell apart: the destination is fetched and written again)
download_pdf_overwrites(dir, filename, content, fetched) ==
  [ok |-> fetched,
   requested |-> TRUE,
   dir |-> IF fetched THEN [dir EXCEPT ![filename] = content] ELSE dir]

\* download_pdf(pdf_url, filename): an existing destination is a success
\* without a request; otherwise requests.get either answers 200 and the
\* content is written (fetched), or it answers otherwise or raises.  The
\* result: the return value, whether a request was issued, the directory.
download_pdf(dir, filename, content, fetched) ==
  IF download_pdf_exists(dir, filename)
  THEN [ok |-> TRUE, requested |-> FALSE, dir |-> dir]
  ELSE [ok |-> fetched, requested |-> TRUE,
        dir |-> IF fetched THEN [dir EXCEPT ![filename] = content] ELSE dir]

\* one turn of `for idx, pdf_link in enumerate(pdf_links)`
DocDownload(net) ==
  /\ dpc = "download"
  /\ idx <= pdf_links
  /\ LET filename == pdf_filename(url, idx, pdf_links) IN
       \E fetched \in net :
         LET result == download_pdf(PDF_DIR, filename, PdfContent(url, idx), fetched) IN
           /\ PDF_DIR' = result.dir
           /\ requested' = result.requested
           /\ downloaded' = (downloaded \/ result.ok)
           /\ downloaded_files' = (IF result.ok THEN Append(downloaded_files, filename)
                                   ELSE downloaded_files)
  /\ idx' = idx + 1
  /\ dpc' = (IF idx = pdf_links THEN "mark" ELSE "download")
  /\ UNCHANGED <<url, pdf_links, anchors, outcome>>
  /\ UNCHANGED walkFrame
  /\ UNCHANGED setVars
  /\ UNCHANGED <<VISITED_LOG, UNAVAILABLE_LOG, SCRAPE_PROGRESS, PAGINATION_STATE, STATUS_LOG, META_DIR>>
  /\ UNCHANGED <<ocrVars, enrichVars, otherVars>>

\* (a bug to tell apart: only the new URL is written to the file)
MarkVisited_writes_only_new(io) ==
  /\ dpc = "mark"
  /\ visited' = visited \cup {url}
  /\ \E saved \in io :
       IF saved
       THEN /\ VISITED_LOG' = {url}
            /\ dpc' = "snapshot"
            /\ UNCHANGED <<url, pdf_links, idx, downloaded, downloaded_files, requested, outcome>>
       ELSE /\ UNCHANGED VISITED_LOG
            /\ DocReturn("exception")
  /\ UNCHANGED <<unavailables, anchors>>
  /\ UNCHANGED walkFrame
  /\ UNCHANGED <<UNAVAILABLE_LOG, SCRAPE_PROGRESS, PAGINATION_STATE, STATUS_LOG, META_DIR, PDF_DIR>>
  /\ UNCHANGED <<ocrVars, enrichVars, otherVars>>

\* visited.add(url); save_visited().  A failing save leaves the file as it
\* was; the exception is caught and scrape_document returns.
MarkVisited(io) ==
  /\ dpc = "mark"
  /\ visited' = visited \cup {url}
  /\ \E saved \in io :
       IF saved
       THEN /\ VISITED_LOG' = visited'
            /\ dpc' = "snapshot"
            /\ UNCHANGED <<url, pdf_links, idx, downloaded, downloaded_files, requested, outcome>>
       ELSE /\ UNCHANGED VISITED_LOG
            /\ DocReturn("exception")
  /\ UNCHANGED <<unavailables, anchors>>
  /\ UNCHANGED walkFrame
  /\ UNCHANGED <<UNAVAILABLE_LOG, SCRAPE_PROGRESS, PAGINATION_STATE, STATUS_LOG, META_DIR, PDF_DIR>>
  /\ UNCHANGED <<ocrVars, enrichVars, otherVars>>

doc_record == [url |-> url, pdf_urls |-> pdf_links, downloaded |-> downloaded,
               downloaded_files |-> downloaded_files]

\* (a bug to tell apart: a snapshot that exists is not written again, the
\* write raises as with open(path, "x"))
SaveMetadata_refuses_overwrite(io) ==
  /\ dpc = "snapshot"
  /\ \E saved \in io :
       IF saved /\ META_DIR[doc_id(url)] = NoRecord
       THEN /\ META_DIR' = [META_DIR EXCEPT ![doc_id(url)] = doc_record]
            /\ dpc' = "log"
            /\ UNCHANGED <<url, pdf_links, idx, downloaded, downloaded_files, requested, outcome>>
       ELSE /\ UNCHANGED META_DIR
            /\ DocReturn("exception")
  /\ UNCHANGED anchors
  /\ UNCHANGED walkFrame
  /\ UNCHANGED setVars
  /\ UNCHANGED <<VISITED_LOG, UNAVAILABLE_LOG, SCRAPE_PROGRESS, PAGINATION_STATE, STATUS_LOG, PDF_DIR>>
  /\ UNCHANGED <<ocrVars, enrichVars, otherVars>>

\* save_metadata(doc_id, doc_record): the snapshot file is overwritten
SaveMetadata(io) ==
  /\ dpc = "snapshot"
  /\ \E saved \in io :
       IF saved
       THEN /\ META_DIR' = [META_DIR EXCEPT ![doc_id(url)] = doc_record]
            /\ dpc' = "log"
            /\ UNCHANGED <<url, pdf_links, idx, downloaded, downloaded_files, requested, outcome>>
       ELSE /\ UNCHANGED META_DIR
            /\ DocReturn("exception")
  /\ UNCHANGED anchors
  /\ UNCHANGED walkFrame
  /\ UNCHANGED setVars
  /\ UNCHANGED <<VISITED_LOG, UNAVAILABLE_LOG, SCRAPE_PROGRESS, PAGINATION_STATE, STATUS_LOG, PDF_DIR>>
  /\ UNCHANGED <<ocrVars, enrichVars, otherVars>>

\* (a bug to tell apart: the log is opened with "w", the old lines are lost)
LogStatus_rewrites(io) ==
  /\ dpc = "log"
  /\ \E saved \in io :
       /\ STATUS_LOG' = (IF saved THEN <<doc_record>> ELSE STATUS_LOG)
       /\ DocReturn(IF saved THEN "harvested" ELSE "exception")
  /\ UNCHANGED anchors
  /\ UNCHANGED walkFrame
  /\ UNCHANGED setVars
  /\ UNCHANGED <<VISITED_LOG, UNAVAILABLE_LOG, SCRAPE_PROGRESS, PAGINATION_STATE, META_DIR, PDF_DIR>>
  /\ UNCHANGED <<ocrVars, enrichVars, otherVars>>

\* log_status(doc_record): one line appended to the status log
LogStatus(io) ==
  /\ dpc = "log"
  /\ \E saved \in io :
       /\ STATUS_LOG' = (IF saved THEN Append(STATUS_LOG, doc_record) ELSE STATUS_LOG)
       /\ DocReturn(IF saved THEN "harvested" ELSE "exception")
  /\ UNCHANGED anchors
  /\ UNCHANGED walkFrame
  /\ UNCHANGED setVars
  /\ UNCHANGED <<VISITED_LOG, UNAVAILABLE_LOG, SCRAPE_PROGRESS, PAGINATION_STATE, META_DIR, PDF_DIR>>
  /\ UNCHANGED <<ocrVars, enrichVars, otherVars>>

(* -------------------------- the text extraction ------------------------ *)
\* len("[EASYOCR FAILED - NO TEXT EXTRACTED]"), len("[EASYOCR FAILED: ]")
EasyOcrNoTextLen == 36
EasyOcrFailedLen == 18
\* len("[OCR FAILED - NO TEXT EXTRACTED]"), len("[OCR SETUP FAILED: ]")
OcrNoTextLen == 32
OcrSetupFailedLen == 20
\* len(ocr_configs) of ocr_pdf.py
NumConfigs == 4
\* "at least 10% of pages or at least 100 characters"
AcceptPercent == 10
AcceptChars == 100

\* A page text as the document decision reads it: whether it starts with
\* the failure marker of the script, its length, and how much of its end is
\* white space.  A text method that succeeds returns "x\n".
TextPage == [sentinel |-> FALSE, len |-> 2, trail |-> 1]
SentinelPage(n) == [sentinel |-> TRUE, len |-> n, trail |-> 0]
\* lengths of the message of an exception
ErrorLens == {81, 82}
\* what one extraction method does on a page
MethodOutcomes == {"raise", "blank", "text"}

RECURSIVE SumLen(_)
SumLen(tc) == IF tc = <<>> THEN 0 ELSE Head(tc).len + SumLen(Tail(tc))

\* len("\n\n".join(text_content))
FullTextLen(tc) == IF tc = <<>> THEN 0 ELSE SumLen(tc) + 2 * (Len(tc) - 1)

\* len(full_text.strip()): no page text starts with white space
StrippedLen(tc) == IF tc = <<>> THEN 0 ELSE FullTextLen(tc) - tc[Len(tc)].trail

\* sum(1 for text in text_content if text.strip() and not text.startswith("[EASYOCR FAILED"))
non_empty_pages(tc) == Cardinality({i \in 1..Len(tc) : ~tc[i].sentinel})

\* ocr_easyocr.py: the test of the "accept" branch
meets_threshold(tc) ==
  /\ non_empty_pages(tc) > 0
  /\ \/ non_empty_pages(tc) * 100 >= Len(tc) * AcceptPercent
     \/ StrippedLen(tc) >= AcceptChars

\* What extract_text_from_pdf returns once the pages are read.
\*   ocr_easyocr.py: None for a blank full text; otherwise the full text,
\*     from the accepting branch or, with a warning, from the other one
\*   ocr_pdf.py: the full text unless it is blank or starts with a failure
\*     marker (that is, unless its first page is one)
extract_text_from_pdf(e, tc) ==
  IF e = "easyocr"
  THEN IF StrippedLen(tc) > 0
       THEN IF meets_threshold(tc) THEN "text" ELSE "text_limited"
       ELSE "None"
  ELSE IF StrippedLen(tc) > 0 /\ ~tc[1].sentinel THEN "text" ELSE "None"

IsText(r) == r \in {"text", "text_limited"}

OcrRunning == opc \notin {"idle", "done"}

\* (a bug to tell apart: the ledger is not asked, a completed file is
\* extracted again)
ProcessPdf_ignores_ledger(e, f) ==
  /\ ~OcrRunning
  /\ engine \in {"none", e}
  /\ engine' = e
  /\ pdf' = f
  /\ n_pages' = 0
  /\ text_content' = <<>>
  /\ method_no' = 0
  /\ config_no' = 0
  /\ invoked' = <<>>
  /\ opc' = "open" /\ ocr_result' = "none"
  /\ UNCHANGED <<OCR_PROGRESS, TEXT_DIR>>
  /\ UNCHANGED <<harvestVars, enrichVars>>

\* process_pdf(pdf_path) of script e: a file the ledger has as completed is
\* left alone
ProcessPdf(e, f) ==
  /\ ~OcrRunning
  /\ engine \in {"none", e}
  /\ engine' = e
  /\ pdf' = f
  /\ n_pages' = 0
  /\ text_content' = <<>>
  /\ method_no' = 0
  /\ config_no' = 0
  /\ invoked' = <<>>
  /\ IF OCR_PROGRESS[f] = "completed"
     THEN opc' = "done" /\ ocr_result' = "skipped"
     ELSE opc' = "open" /\ ocr_result' = "none"
  /\ UNCHANGED <<OCR_PROGRESS, TEXT_DIR>>
  /\ UNCHANGED <<harvestVars, enrichVars>>

\* fitz.open(pdf_path): a document of n pages
OpenPdf(counts) ==
  /\ opc = "open"
  /\ \E n \in counts :
       /\ n_pages' = n
       /\ opc' = (IF n = 0 THEN "decide" ELSE "page")
  /\ method_no' = 1
  /\ UNCHANGED <<OCR_PROGRESS, TEXT_DIR, engine, pdf, text_content, config_no,
                 invoked, ocr_result>>
  /\ UNCHANGED <<harvestVars, enrichVars>>
  /\ UNCHANGED runVars

\* fitz.open or doc.load_page raises: the except of extract_text_from_pdf
\* returns None
ExtractException ==
  /\ opc \in {"open", "page"}
  /\ opc = "page" => (method_no = 1 /\ config_no = 0)
  /\ ocr_result' = "None"
  /\ opc' = "record"
  /\ UNCHANGED <<OCR_PROGRESS, TEXT_DIR, engine, pdf, n_pages, text_content,
                 method_no, config_no, invoked>>
  /\ UNCHANGED <<harvestVars, enrichVars>>
  /\ UNCHANGED runVars

\* extract_text_robust returns t for the current page
PageReturn(t) ==
  /\ text_content' = Append(text_content, t)
  /\ opc' = (IF Len(text_content) + 1 = n_pages THEN "decide" ELSE "page")
  /\ method_no' = 1
  /\ config_no' = 0

\* the methods invoked on the current page, this one included: method m
\* gave r ("raise", "blank", "text"; "rendered" while the configurations of
\* ocr_pdf.py are tried)
NowInvoked(m, r) ==
  LET call == [method |-> m, gave |-> r]
  IN IF Len(invoked) > 0 /\ method_no = 1 /\ config_no = 0
     THEN <<call>> ELSE Append(invoked, call)

\* (a bug to tell apart: a text that was found is not returned, the next
\* method is tried all the same)
TryTextLayer_goes_on ==
  /\ opc = "page"
  /\ method_no \in 1..3
  /\ \E r \in MethodOutcomes :
       /\ invoked' = NowInvoked(method_no, r)
       /\ method_no' = method_no + 1
       /\ UNCHANGED <<text_content, opc, config_no>>
  /\ UNCHANGED <<OCR_PROGRESS, TEXT_DIR, engine, pdf, n_pages, ocr_result>>
  /\ UNCHANGED <<harvestVars, enrichVars>>
  /\ UNCHANGED runVars

\* Methods 1 to 3: page.get_text(), page.getText(), page.get_text("blocks").
\* A text that is not blank is returned; an exception or a blank text goes
\* on to the next method.
TryTextLayer ==
  /\ opc = "page"
  /\ method_no \in 1..3
  /\ \E r \in MethodOutcomes :
       /\ invoked' = NowInvoked(method_no, r)
       /\ IF r = "text"
          THEN PageReturn(TextPage)
          ELSE /\ method_no' = method_no + 1
               /\ UNCHANGED <<text_content, opc, config_no>>
  /\ UNCHANGED <<OCR_PROGRESS, TEXT_DIR, engine, pdf, n_pages, ocr_result>>
  /\ UNCHANGED <<harvestVars, enrichVars>>
  /\ UNCHANGED runVars

\* Method 4 of ocr_easyocr.py: reader.readtext on the rendered page
TryEasyOcr ==
  /\ opc = "page"
  /\ engine = "easyocr"
  /\ method_no = 4
  /\ \E r \in MethodOutcomes :
       /\ invoked' = NowInvoked(4, r)
       /\ CASE r = "text" -> PageReturn(TextPage)
            [] r = "blank" -> PageReturn(SentinelPage(EasyOcrNoTextLen))
            [] r = "raise" -> \E n \in ErrorLens : PageReturn(SentinelPage(EasyOcrFailedLen + n))
  /\ UNCHANGED <<OCR_PROGRESS, TEXT_DIR, engine, pdf, n_pages, ocr_result>>
  /\ UNCHANGED <<harvestVars, enrichVars>>
  /\ UNCHANGED runVars

\* Method 4 of ocr_pdf.py, first part: the page is rendered to an image
OcrSetup ==
  /\ opc = "page"
  /\ engine = "tesseract"
  /\ method_no = 4
  /\ config_no = 0
  /\ \/ /\ invoked' = NowInvoked(4, "rendered")
        /\ config_no' = 1
        /\ UNCHANGED <<text_content, opc, method_no>>
     \/ /\ invoked' = NowInvoked(4, "raise")
        /\ \E n \in ErrorLens : PageReturn(SentinelPage(OcrSetupFailedLen + n))
  /\ UNCHANGED <<OCR_PROGRESS, TEXT_DIR, engine, pdf, n_pages, ocr_result>>
  /\ UNCHANGED <<harvestVars, enrichVars>>
  /\ UNCHANGED runVars

\* Method 4 of ocr_pdf.py, second part: pytesseract.image_to_string with
\* one configuration after the other
TryOcrConfig ==
  /\ opc = "page"
  /\ engine = "tesseract"
  /\ method_no = 4
  /\ config_no \in 1..NumConfigs
  /\ \E r \in MethodOutcomes :
       IF r = "text"
       THEN /\ PageReturn(TextPage)
            /\ invoked' = [invoked EXCEPT ![Len(invoked)].gave = "text"]
       ELSE IF config_no = NumConfigs
       THEN /\ PageReturn(SentinelPage(OcrNoTextLen))
            /\ invoked' = [invoked EXCEPT ![Len(invoked)].gave = "blank"]
       ELSE /\ config_no' = config_no + 1
            /\ UNCHANGED <<text_content, opc, method_no, invoked>>
  /\ UNCHANGED <<OCR_PROGRESS, TEXT_DIR, engine, pdf, n_pages, ocr_result>>
  /\ UNCHANGED <<harvestVars, enrichVars>>
  /\ UNCHANGED runVars

\* the pages are read: extract_text_from_pdf returns, process_pdf tests
\* `text_content is None`
ExtractReturns ==
  /\ opc = "decide"
  /\ ocr_result' = extract_text_from_pdf(engine, text_content)
  /\ opc' = (IF IsText(ocr_result') THEN "write" ELSE "record")
  /\ UNCHANGED <<OCR_PROGRESS, TEXT_DIR, engine, pdf, n_pages, text_content,
                 method_no, config_no, invoked>>
  /\ UNCHANGED <<harvestVars, enrichVars>>
  /\ UNCHANGED runVars

\* the output text file is written: "filename: <name>" and the text.  A
\* write that raises is caught by the except of process_pdf; open(.., "w")
\* has then either failed, and the file is as it was, or has truncated the
\* file, and the file is empty.
WriteText(io) ==
  /\ opc = "write"
  /\ \E saved \in io :
       /\ \/ saved /\ TEXT_DIR' = [TEXT_DIR EXCEPT ![text_filename(pdf)] = "text"]
          \/ ~saved /\ TEXT_DIR' = TEXT_DIR
          \/ ~saved /\ TEXT_DIR' = [TEXT_DIR EXCEPT ![text_filename(pdf)] = "blank"]
       /\ ocr_result' = (IF saved THEN ocr_result ELSE "error")
  /\ opc' = "record"
  /\ UNCHANGED <<OCR_PROGRESS, engine, pdf, n_pages, text_content, method_no,
                 config_no, invoked>>
  /\ UNCHANGED <<harvestVars, enrichVars>>
  /\ UNCHANGED runVars

\* save_ocr_progress(filename, "completed" | "failed", ...), and process_pdf
\* returns
SaveOcrProgress ==
  /\ opc = "record"
  /\ OCR_PROGRESS' = [OCR_PROGRESS EXCEPT
                        ![pdf] = IF IsText(ocr_result) THEN "completed" ELSE "failed"]
  /\ opc' = "done"
  /\ n_pages' = 0
  /\ text_content' = <<>>
  /\ method_no' = 0
  /\ config_no' = 0
  /\ invoked' = <<>>
  /\ UNCHANGED <<TEXT_DIR, engine, pdf, ocr_result>>
  /\ UNCHANGED <<harvestVars, enrichVars>>
  /\ UNCHANGED runVars

\* the extraction process is interrupted from outside; an interruption in
\* the middle of the write of the text file may leave the file empty
OcrCrash ==
  /\ OcrRunning \/ verb # "none"
  /\ opc' = "idle"
  /\ pdf' = NoPdf
  /\ n_pages' = 0
  /\ text_content' = <<>>
  /\ method_no' = 0
  /\ config_no' = 0
  /\ invoked' = <<>>
  /\ ocr_result' = "none"
  /\ verb' = "none"
  /\ to_process' = <<>>
  /\ named' = NoPdf
  /\ \/ TEXT_DIR' = TEXT_DIR
     \/ opc = "write" /\ TEXT_DIR' = [TEXT_DIR EXCEPT ![text_filename(pdf)] = "blank"]
  /\ UNCHANGED <<OCR_PROGRESS, engine, pdf_dir>>
  /\ UNCHANGED <<harvestVars, enrichVars>>

(* ---------------------- the commands of the extraction ----------------- *)
\* the order in which a directory listing or the ledger gives the names
Rank(f) == 2 * f.stem + (IF f.ext = "pdf" THEN 0 ELSE 1)
InOrder(S) ==
  CHOOSE q \in [1..Cardinality(S) -> S] :
    \A i, j \in 1..Cardinality(S) : i < j => Rank(q[i]) < Rank(q[j])

\* backpropagate_completed_files(): the ledger with "completed" under the
\* PDF name derived from every text file whose content is not blank
backpropagate_completed_files(progress, texts) ==
  [f \in PdfNames |->
     IF \E t \in TextNames : texts[t] = "text" /\ pdf_filename_of(t) = f
     THEN "completed" ELSE progress[f]]

completed(progress) == {f \in PdfNames : progress[f] = "completed"}
failed(progress) == {f \in PdfNames : progress[f] = "failed"}

NoCommand == verb = "none" /\ ~OcrRunning

\* the locals of process_pdf are those of no call
NoCall ==
  /\ opc' = "idle"
  /\ pdf' = NoPdf
  /\ n_pages' = 0
  /\ text_content' = <<>>
  /\ method_no' = 0
  /\ config_no' = 0
  /\ invoked' = <<>>
  /\ ocr_result' = "none"

\* (a bug to tell apart: the sweep takes only the files without an entry)
ProcessAllPdfs_leaves_failed(e) ==
  /\ NoCommand
  /\ engine \in {"none", e}
  /\ engine' = e
  /\ NoCall
  /\ IF pdf_dir = {}
     THEN UNCHANGED <<OCR_PROGRESS, verb, to_process>>
     ELSE LET progress == IF e = "easyocr"
                          THEN backpropagate_completed_files(OCR_PROGRESS, TEXT_DIR)
                          ELSE OCR_PROGRESS
          IN /\ OCR_PROGRESS' = progress
             /\ verb' = "sweep"
             /\ to_process' = InOrder((pdf_dir \ completed(progress)) \ failed(progress))
  /\ UNCHANGED <<TEXT_DIR, pdf_dir, named>>
  /\ UNCHANGED <<harvestVars, enrichVars>>

\* process_all_pdfs() up to its loop.  ocr_easyocr.py brings the ledger up
\* to date from the text files and leaves out the completed files;
\* ocr_pdf.py takes every PDF file.
ProcessAllPdfs(e) ==
  /\ NoCommand
  /\ engine \in {"none", e}
  /\ engine' = e
  /\ NoCall
  /\ IF pdf_dir = {}
     THEN UNCHANGED <<OCR_PROGRESS, verb, to_process>>
     ELSE LET progress == IF e = "easyocr"
                          THEN backpropagate_completed_files(OCR_PROGRESS, TEXT_DIR)
                          ELSE OCR_PROGRESS
          IN /\ OCR_PROGRESS' = progress
             /\ verb' = "sweep"
             /\ to_process' = InOrder(IF e = "easyocr"
                                      THEN pdf_dir \ completed(progress)
                                      ELSE pdf_dir)
  /\ UNCHANGED <<TEXT_DIR, pdf_dir, named>>
  /\ UNCHANGED <<harvestVars, enrichVars>>

\* the "retry" command of both scripts up to its loop
RetryFailed(e) ==
  /\ NoCommand
  /\ engine \in {"none", e}
  /\ engine' = e
  /\ NoCall
  /\ IF failed(OCR_PROGRESS) = {}
     THEN UNCHANGED <<verb, to_process>>
     ELSE /\ verb' = "retry"
          /\ to_process' = InOrder(failed(OCR_PROGRESS))
  /\ UNCHANGED <<OCR_PROGRESS, TEXT_DIR, pdf_dir, named>>
  /\ UNCHANGED <<harvestVars, enrichVars>>

\* One turn of the loop of process_all_pdfs or of the retry command: the
\* next file is handed to process_pdf; the retry command passes over an
\* entry whose file is gone.
NextPdf ==
  /\ verb \in {"sweep", "retry"}
  /\ ~OcrRunning
  /\ to_process # <<>>
  /\ to_process' = Tail(to_process)
  /\ IF verb = "retry" /\ Head(to_process) \notin pdf_dir
     THEN UNCHANGED <<OCR_PROGRESS, TEXT_DIR, engine, opc, pdf, n_pages, text_content,
                      method_no, config_no, invoked, ocr_result>>
          /\ UNCHANGED <<harvestVars, enrichVars>>
     ELSE ProcessPdf(engine, Head(to_process))
  /\ UNCHANGED <<verb, pdf_dir, named>>

\* process_single_pdf(pdf_filename), the "single" command of ocr_easyocr.py
ProcessSinglePdf(f) ==
  /\ NoCommand
  /\ engine \in {"none", "easyocr"}
  /\ IF f \in pdf_dir
     THEN /\ ProcessPdf("easyocr", f)
          /\ verb' = "single"
          /\ named' = f
     ELSE /\ engine' = "easyocr"
          /\ NoCall
          /\ UNCHANGED <<OCR_PROGRESS, TEXT_DIR, verb, named>>
          /\ UNCHANGED <<harvestVars, enrichVars>>
  /\ UNCHANGED <<pdf_dir, to_process>>

\* the loop is over, the command returns and the process ends
CommandReturns ==
  /\ verb # "none"
  /\ ~OcrRunning
  /\ to_process = <<>>
  /\ verb' = "none"
  /\ named' = NoPdf
  /\ NoCall
  /\ UNCHANGED <<OCR_PROGRESS, TEXT_DIR, engine, pdf_dir, to_process>>
  /\ UNCHANGED <<harvestVars, enrichVars>>

\* between two commands a PDF file is removed from data/PDFs
PdfRemoved(f) ==
  /\ NoCommand
  /\ f \in pdf_dir
  /\ pdf_dir' = pdf_dir \ {f}
  /\ UNCHANGED <<OCR_PROGRESS, TEXT_DIR, engine, opc, pdf, n_pages, text_content,
                 method_no, config_no, invoked, ocr_result, verb, to_process, named>>
  /\ UNCHANGED <<harvestVars, enrichVars>>

(* ---------------------------- the enrichment --------------------------- *)
\* Characters are numbers; LineBreak stands for "\n".
LineBreak == 0
Chars == {1, 2}
RECURSIVE TextsOfLen(_)
TextsOfLen(n) ==
  IF n = 0 THEN {<<>>} ELSE {Append(t, c) : t \in TextsOfLen(n - 1), c \in Chars}
Texts == UNION {TextsOfLen(n) : n \in 0..MaxText}
\* the text whose characters are all different
Numbered(n) == [i \in 1..n |-> i]

Min(a, b) == IF a < b THEN a ELSE b

\* the while loop of chunk_text from `start` on
RECURSIVE chunks_from(_, _, _, _)
chunks_from(text, start, chunk_size, overlap) ==
  IF start < Len(text)
  THEN LET end == Min(start + chunk_size, Len(text))
           chunk == SubSeq(text, start + 1, end)
       IN IF end = Len(text)
          THEN <<chunk>>
          ELSE <<chunk>> \o chunks_from(text, end - overlap, chunk_size, overlap)
  ELSE <<>>

\* (a bug to tell apart: the next window starts where the last one ended)
chunk_text_without_overlap(text, chunk_size, overlap) ==
  chunks_from(text, 0, chunk_size, 0)

\* chunk_text(text, chunk_size, overlap)
chunk_text(text, chunk_size, overlap) ==
  chunks_from(text, 0, chunk_size, overlap)

\* '\n\n'.join(corrected_chunks)
RECURSIVE join(_)
join(chs) ==
  IF chs = <<>> THEN <<>>
  ELSE IF Len(chs) = 1 THEN chs[1]
  ELSE chs[1] \o <<LineBreak, LineBreak>> \o join(Tail(chs))

\* What load_metadata gave: nothing (or a record without a date field), a
\* record whose date has a year of 1970 to 2029, or a record whose date has
\* none.
Metas == {"none", "dated", "date_without_era"}

\* The snapshots the harvester writes: the DocumentRecord of scrape_document,
\* whose label-to-value field map, under the key `metadata`, has a
\* 'Publication Date' entry (with a year of 1970 to 2029) or has none.
Snapshots == {"record_dated", "record_undated"}
DocumentRecordKeys ==
  {"url", "title", "pdf_urls", "downloaded", "downloaded_files", "metadata"}

\* the keys of the snapshot itself, and those of its field map
top_level_keys(m) ==
  CASE m \in Snapshots -> DocumentRecordKeys
    [] m \in {"dated", "date_without_era"} -> {"Publication Date"}
    [] OTHER -> {}
field_map_keys(m) == IF m = "record_dated" THEN {"Publication Date"} ELSE {}

\* the field names extract_publication_date tries
date_fields ==
  {"Publication Date", "publication_date", "date", "Date", "created_date",
   "document_date", "Document Date"}

\* extract_publication_date(metadata): the value of the first of the date
\* fields that is a key of the snapshot
extract_publication_date(m) ==
  IF m = "none" \/ top_level_keys(m) \cap date_fields = {} THEN "None" ELSE "metadata"
determine_era_from_date(m) == IF m \in {"dated", "record_dated"} THEN "metadata" ELSE "None"

\* What the backend answers to one request.
\*   timeout:             requests.post raises (time-out, connection error)
\*   http_error:          a status other than 200
\*   no_braces:           status 200, the text has no "{" followed by a "}"
\*   invalid_json:        status 200, the text from the first "{" to the last
\*                        "}" is not JSON
\*   missing_field:       status 200, a JSON object without filetitle or keywords
\*   keywords_not_object: status 200, a JSON object whose keywords is a string
\*   object:              status 200, a JSON object with both fields; it has
\*                        a publication_date or not, its keywords have no
\*                        era, the era "null" or an era of their own, and
\*                        it has a body of the backend's making or not
FailureKinds == {"timeout", "http_error", "no_braces", "invalid_json", "missing_field",
                 "keywords_not_object"}
Failure(k) == [kind |-> k, publication_date |-> "absent", era |-> "absent", body |-> "absent"]
Object(p, e) == [kind |-> "object", publication_date |-> p, era |-> e, body |-> "absent"]
Replies ==
  {Failure(k) : k \in FailureKinds}
    \cup {[Object(p, e) EXCEPT !.body = b] :
            p \in {"absent", "backend"}, e \in {"absent", "null", "backend"},
            b \in {"absent", "backend"}}

\* (a bug to tell apart: the values of the reply are overwritten by those
\* of the metadata)
process_text_with_deepseek_prefers_metadata(reply, m) ==
  LET publication_date == extract_publication_date(m)
      era_from_metadata == IF publication_date # "None"
                           THEN determine_era_from_date(m) ELSE "None"
  IN CASE reply.kind = "object" ->
            [kind |-> "parsed",
             publication_date |-> IF publication_date # "None"
                                  THEN publication_date ELSE reply.publication_date,
             era |-> IF era_from_metadata # "None" THEN era_from_metadata ELSE reply.era,
             body |-> reply.body]
       [] reply.kind = "invalid_json" ->
            [kind |-> "fallback",
             publication_date |-> publication_date,
             era |-> IF era_from_metadata # "None" THEN era_from_metadata ELSE "Unknown",
             body |-> "absent"]
       [] OTHER -> NoData

\* process_text_with_deepseek(text, filename, metadata), given the reply:
\* None, the parsed object with publication_date filled in when the reply
\* has none and the era replaced when it is "null" and the metadata give
\* one, or the fallback object when json.loads raised
process_text_with_deepseek(reply, m) ==
  LET publication_date == extract_publication_date(m)
      era_from_metadata == IF publication_date # "None"
                           THEN determine_era_from_date(m) ELSE "None"
  IN CASE reply.kind = "object" ->
            [kind |-> "parsed",
             publication_date |-> IF reply.publication_date = "absent"
                                  THEN publication_date ELSE reply.publication_date,
             era |-> IF era_from_metadata # "None" /\ reply.era = "null"
                     THEN era_from_metadata ELSE reply.era,
             body |-> reply.body]
       [] reply.kind = "invalid_json" ->
            [kind |-> "fallback",
             publication_date |-> publication_date,
             era |-> IF era_from_metadata # "None" THEN era_from_metadata ELSE "Unknown",
             body |-> "absent"]
       [] OTHER -> NoData

\* sorted(input_files)
RECURSIVE Sorted(_)
Sorted(S) ==
  IF S = {} THEN <<>>
  ELSE LET least == CHOOSE x \in S : \A y \in S : x <= y
       IN <<least>> \o Sorted(S \ {least})

NoProgress == [t \in TextNames |-> "none"]

\* the locals of process_file are those of no call
NoFileLocals ==
  /\ metadata' = NoMetadata
  /\ clean_ocr_text' = <<>>
  /\ window' = NoWindow
  /\ chunks' = <<>>
  /\ corrected_chunks' = <<>>
  /\ structured_data' = NoData
  /\ success' = FALSE
  /\ posted' = <<>>
  /\ response' = NoReply

NoFileCall == txt_file' = NoText /\ NoFileLocals

\* main() up to its loop: the backend has the model or main returns; the
\* progress map is loaded and the text files are listed
StartEnrichment(avail) ==
  /\ epc = "idle"
  /\ \E ok \in avail :
       LET files == {t \in TextNames : TEXT_DIR[t] # "absent"}
       IN IF ok /\ files # {}
          THEN /\ enrich_progress' = PROGRESS_FILE
               /\ input_files' = Sorted(files)
               /\ epc' = "loop"
          ELSE UNCHANGED <<enrich_progress, input_files, epc>>
  /\ UNCHANGED <<PROGRESS_FILE, OUTPUT_DIR, fileVars, sent_in_runs>>
  /\ UNCHANGED <<harvestVars, ocrVars>>

\* (a bug to tell apart: only a completed file is skipped, a failed one is
\* tried again)
NextFile_retries_failed ==
  /\ epc = "loop"
  /\ IF input_files = <<>>
     THEN /\ epc' = "idle"
          /\ enrich_progress' = NoProgress
          /\ NoFileCall
          /\ UNCHANGED input_files
     ELSE /\ input_files' = Tail(input_files)
          /\ NoFileLocals
          /\ IF enrich_progress[Head(input_files)] = "completed"
             THEN txt_file' = NoText /\ epc' = "loop"
             ELSE txt_file' = Head(input_files) /\ epc' = "read"
          /\ UNCHANGED enrich_progress
  /\ UNCHANGED <<PROGRESS_FILE, OUTPUT_DIR, sent_in_runs>>
  /\ UNCHANGED <<harvestVars, ocrVars>>

\* One turn of the loop of main: a file that is in the progress map is
\* skipped, any other is handed to process_file; after the last file main
\* returns.
NextFile ==
  /\ epc = "loop"
  /\ IF input_files = <<>>
     THEN /\ epc' = "idle"
          /\ enrich_progress' = NoProgress
          /\ NoFileCall
          /\ UNCHANGED input_files
     ELSE /\ input_files' = Tail(input_files)
          /\ NoFileLocals
          /\ IF enrich_progress[Head(input_files)] # "none"
             THEN txt_file' = NoText /\ epc' = "loop"
             ELSE txt_file' = Head(input_files) /\ epc' = "read"
          /\ UNCHANGED enrich_progress
  /\ UNCHANGED <<PROGRESS_FILE, OUTPUT_DIR, sent_in_runs>>
  /\ UNCHANGED <<harvestVars, ocrVars>>

\* process_file up to the chunking: the metadata are loaded and the text
\* file is read; an empty file makes process_file return False, a read that
\* raises is caught by its except, which returns False
ReadFile(metas, texts, io) ==
  /\ epc = "read"
  /\ \E m \in metas, ok \in io :
       /\ metadata' = m
       /\ IF ok /\ TEXT_DIR[txt_file] = "text"
          THEN /\ \E t \in texts : clean_ocr_text' = t
               /\ epc' = "chunk"
          ELSE /\ clean_ocr_text' = <<>>
               /\ epc' = "save"
  /\ success' = FALSE
  /\ UNCHANGED <<PROGRESS_FILE, OUTPUT_DIR, sent_in_runs, enrich_progress, input_files, txt_file,
                 window, chunks, corrected_chunks, structured_data, posted, response>>
  /\ UNCHANGED <<harvestVars, ocrVars>>

\* chunks = chunk_text(clean_ocr_text, chunk_size, overlap)
ChunkText(chunk_size, overlap) ==
  /\ epc = "chunk"
  /\ window' = [chunk_size |-> chunk_size, overlap |-> overlap]
  /\ chunks' = chunk_text(clean_ocr_text, chunk_size, overlap)
  /\ epc' = "send"
  /\ UNCHANGED <<PROGRESS_FILE, OUTPUT_DIR, sent_in_runs, enrich_progress, input_files, txt_file,
                 metadata, clean_ocr_text, corrected_chunks, structured_data, success,
                 posted, response>>
  /\ UNCHANGED <<harvestVars, ocrVars>>

\* requests.post(.., json=payload) of process_text_with_deepseek as the
\* backend sees it: the first chunk of a file in a run makes the run one more
\* that has sent the file
request_seen(seen, t, sent_before) ==
  IF sent_before # <<>> THEN seen
  ELSE [seen EXCEPT ![t] = IF @ = "none" THEN "one" ELSE "several"]

\* (a bug to tell apart: a chunk is kept whatever the backend answered)
SendChunk_keeps_unanswered(replies) ==
  /\ epc = "send"
  /\ Len(corrected_chunks) < Len(chunks)
  /\ LET chunk == chunks[Len(corrected_chunks) + 1]
     IN /\ posted' = Append(posted, chunk)
        /\ sent_in_runs' = request_seen(sent_in_runs, txt_file, posted)
        /\ \E reply \in replies :
             /\ response' = reply
             /\ structured_data' = process_text_with_deepseek(reply, metadata)
             /\ corrected_chunks' = Append(corrected_chunks, chunk)
             /\ epc' = (IF Len(corrected_chunks) + 1 = Len(chunks) THEN "write" ELSE "send")
  /\ UNCHANGED <<PROGRESS_FILE, OUTPUT_DIR, enrich_progress, input_files, txt_file,
                 metadata, clean_ocr_text, window, chunks, success>>
  /\ UNCHANGED <<harvestVars, ocrVars>>

\* One turn of the chunk loop of process_file: the chunk is posted; when
\* process_text_with_deepseek returns None process_file returns False,
\* otherwise the chunk is kept and the next one is sent.
SendChunk(replies) ==
  /\ epc = "send"
  /\ Len(corrected_chunks) < Len(chunks)
  /\ LET chunk == chunks[Len(corrected_chunks) + 1]
     IN /\ posted' = Append(posted, chunk)
        /\ sent_in_runs' = request_seen(sent_in_runs, txt_file, posted)
        /\ \E reply \in replies :
             /\ response' = reply
             /\ structured_data' = process_text_with_deepseek(reply, metadata)
             /\ IF structured_data' = NoData
                THEN /\ epc' = "save"
                     /\ UNCHANGED corrected_chunks
                ELSE /\ corrected_chunks' = Append(corrected_chunks, chunk)
                     /\ epc' = (IF Len(corrected_chunks) + 1 = Len(chunks)
                                THEN "write" ELSE "send")
  /\ UNCHANGED <<PROGRESS_FILE, OUTPUT_DIR, enrich_progress, input_files, txt_file,
                 metadata, clean_ocr_text, window, chunks, success>>
  /\ UNCHANGED <<harvestVars, ocrVars>>

\* the record of the file: the structured object of the last chunk with
\* body and filetitle set
final_structured ==
  [body |-> join(corrected_chunks),
   publication_date |-> structured_data.publication_date,
   era |-> structured_data.era]

\* (a bug to tell apart: the body is the text as it was before chunking)
WriteOutput_writes_text(io) ==
  /\ epc = "write"
  /\ \E saved \in io :
       /\ OUTPUT_DIR' = (IF saved
                         THEN [OUTPUT_DIR EXCEPT ![txt_file] =
                                 [final_structured EXCEPT !.body = clean_ocr_text]]
                         ELSE OUTPUT_DIR)
       /\ success' = saved
  /\ epc' = "save"
  /\ UNCHANGED <<PROGRESS_FILE, sent_in_runs, enrich_progress, input_files, txt_file, metadata,
                 clean_ocr_text, window, chunks, corrected_chunks, structured_data,
                 posted, response>>
  /\ UNCHANGED <<harvestVars, ocrVars>>

\* the enriched record is written and process_file returns True; a write
\* that raises is caught by the except of process_file, which returns False
WriteOutput(io) ==
  /\ epc = "write"
  /\ \E saved \in io :
       /\ OUTPUT_DIR' = (IF saved
                         THEN [OUTPUT_DIR EXCEPT ![txt_file] = final_structured]
                         ELSE OUTPUT_DIR)
       /\ success' = saved
  /\ epc' = "save"
  /\ UNCHANGED <<PROGRESS_FILE, sent_in_runs, enrich_progress, input_files, txt_file, metadata,
                 clean_ocr_text, window, chunks, corrected_chunks, structured_data,
                 posted, response>>
  /\ UNCHANGED <<harvestVars, ocrVars>>

\* (a bug to tell apart: the entry is made in the map in memory and the
\* map is not written)
SaveEnrichProgress_in_memory(io) ==
  /\ epc = "save"
  /\ \E saved \in io :
       /\ enrich_progress' = [enrich_progress EXCEPT
                                ![txt_file] = IF success THEN "completed" ELSE "failed"]
       /\ epc' = "loop"
       /\ UNCHANGED <<PROGRESS_FILE, input_files, fileVars>>
  /\ UNCHANGED <<OUTPUT_DIR, sent_in_runs>>
  /\ UNCHANGED <<harvestVars, ocrVars>>

\* main: progress[filename] = "completed" or "failed", save_progress(progress);
\* a write that raises ends main
SaveEnrichProgress(io) ==
  /\ epc = "save"
  /\ LET entered == [enrich_progress EXCEPT
                       ![txt_file] = IF success THEN "completed" ELSE "failed"]
     IN \E saved \in io :
          IF saved
          THEN /\ enrich_progress' = entered
               /\ PROGRESS_FILE' = entered
               /\ epc' = "loop"
               /\ UNCHANGED <<input_files, fileVars>>
          ELSE /\ enrich_progress' = NoProgress
               /\ input_files' = <<>>
               /\ epc' = "idle"
               /\ NoFileCall
               /\ UNCHANGED PROGRESS_FILE
  /\ UNCHANGED <<OUTPUT_DIR, sent_in_runs>>
  /\ UNCHANGED <<harvestVars, ocrVars>>

\* the enrichment process is interrupted from outside
EnrichCrash ==
  /\ epc # "idle"
  /\ epc' = "idle"
  /\ enrich_progress' = NoProgress
  /\ input_files' = <<>>
  /\ NoFileCall
  /\ UNCHANGED <<PROGRESS_FILE, OUTPUT_DIR, sent_in_runs>>
  /\ UNCHANGED <<harvestVars, ocrVars>>

(* ----------------------- a second harvester process -------------------- *)
\* The same script started a second time while the first may be running.
\* Its module import loads the visited file into its own set.
OtherStart ==
  /\ other_pc = "idle"
  /\ other_pc' = "run"
  /\ other_visited' = VISITED_LOG
  /\ UNCHANGED <<setVars, walkVars, docVars, diskVars, decision, outcome>>
  /\ UNCHANGED <<ocrVars, enrichVars>>

\* scrape_document of the second process on a document without attachment
\* links, every write succeeding: visited.add(url), save_visited(),
\* save_metadata(doc_id, doc_record), log_status(doc_record)
OtherScrapeDocument(u) ==
  /\ other_pc = "run"
  /\ u \notin other_visited
  /\ other_visited' = other_visited \cup {u}
  /\ VISITED_LOG' = other_visited'
  /\ LET record == [url |-> u, pdf_urls |-> 0, downloaded |-> FALSE,
                    downloaded_files |-> <<>>]
     IN /\ META_DIR' = [META_DIR EXCEPT ![doc_id(u)] = record]
        /\ STATUS_LOG' = Append(STATUS_LOG, record)
  /\ UNCHANGED other_pc
  /\ UNCHANGED <<setVars, walkVars, docVars, decision, outcome>>
  /\ UNCHANGED <<UNAVAILABLE_LOG, SCRAPE_PROGRESS, PAGINATION_STATE, PDF_DIR>>
  /\ UNCHANGED <<ocrVars, enrichVars>>

(* -------------------------- the specifications ------------------------- *)
\* What the environment may answer.  A file write succeeds (TRUE) or raises
\* (FALSE); a download request succeeds or fails.
Succeeds == {TRUE}
MayFail == BOOLEAN
LinkCounts == 0..MaxLinks
NoLinks == {0}

\* The harvester on its own: the process starts (module import), and the
\* anchor loop of a walker is handed the anchors of one listing page after
\* another; which walker and which page does not matter to scrape_document.
StartHarvester(m) ==
  /\ ~Running
  /\ visited' = VISITED_LOG
  /\ unavailables' = (IF m = "orig" THEN {} ELSE UNAVAILABLE_LOG)
  /\ mode' = m
  /\ wpc' = "harvest"
  /\ decision' = "start"
  /\ outcome' = "none"
  /\ UNCHANGED <<start_year, page_num, start_url, used_original_url, forced_reload,
                 root_polled, search_url, page, anchors>>
  /\ UNCHANGED docVars
  /\ UNCHANGED diskVars
  /\ UNCHANGED <<ocrVars, enrichVars, otherVars>>

HarvestPage(lists) ==
  /\ wpc = "harvest"
  /\ dpc = "none"
  /\ anchors = <<>>
  /\ \E a \in lists \ {<<>>} : anchors' = a
  /\ outcome' = "none"
  /\ UNCHANGED walkFrame
  /\ UNCHANGED setVars
  /\ UNCHANGED docVars
  /\ UNCHANGED diskVars
  /\ UNCHANGED <<ocrVars, enrichVars, otherVars>>

\* scrape_document over documents without attachment links
Harvester(io) ==
  \/ ScrapeDocument
  \/ DocLoaded(NoLinks)
  \/ DocUnavailable(io)
  \/ DocLoadException
  \/ MarkVisited(io)
  \/ SaveMetadata(io)
  \/ LogStatus(io)

\* Both versions of scrape_document, over every document URL, with file
\* writes that may raise.
NextHarvest ==
  \/ \E m \in {"year", "orig"} : StartHarvester(m)
  \/ HarvestPage(AnchorLists)
  \/ Crash
  \/ Harvester(MayFail)

SpecHarvest == Init /\ [][NextHarvest]_vars

\* Two harvester processes on the same files: the first is started, runs
\* and is interrupted as often as it likes, the second is started once, at
\* any moment.  Writes succeed.
OneAnchor == {<<u>> : u \in DocUrls}
\* the documents the listing pages of the second process link to
OtherUrls == {1, 2}

NextTwo ==
  \/ StartHarvester("year")
  \/ HarvestPage(OneAnchor)
  \/ Crash
  \/ ScrapeDocument
  \/ DocLoaded(NoLinks)
  \/ MarkVisited(Succeeds)
  \/ SaveMetadata(Succeeds)
  \/ LogStatus(Succeeds)
  \/ OtherStart
  \/ \E u \in OtherUrls : OtherScrapeDocument(u)

SpecTwo == Init /\ [][NextTwo]_vars

\* scrape_document over documents with 0..MaxLinks attachment links
HarvesterWithDownloads(io, net) ==
  \/ ScrapeDocument
  \/ DocLoaded(LinkCounts)
  \/ DocUnavailable(io)
  \/ DocLoadException
  \/ DocDownload(net)
  \/ MarkVisited(io)
  \/ SaveMetadata(io)
  \/ LogStatus(io)

\* The attachment downloads: both versions of scrape_document over the
\* documents that share doc_id and title with document 1, so that two
\* documents write to the same destination and the same snapshot; a request
\* may fail, files can always be written.
CollidingUrls == {u \in DocUrls : doc_id(u) = doc_id(1)}
DownloadAnchorLists == SeqsUpTo(CollidingUrls, MaxAnchors)

NextDownload ==
  \/ \E m \in {"year", "orig"} : StartHarvester(m)
  \/ HarvestPage(DownloadAnchorLists)
  \/ Crash
  \/ HarvesterWithDownloads(Succeeds, MayFail)

SpecDownload == Init /\ [][NextDownload]_vars

\* One step of a walk loop, its listing pages linking to the given anchors.
Walker(lists) ==
  \/ LoopTop
  \/ GotoListing
  \/ ListingException
  \/ PollAttempt
  \/ SkipUnavailablePage
  \/ RedirectBreak
  \/ TitleRollover
  \/ EvaluateAnchors(lists)
  \/ MarkerRollover
  \/ NoLinksBreak
  \/ BeginHarvest
  \/ NextPage

\* The walkers.  A settings directory is worked by one of the two scripts:
\* by the continuation script, through either of its walkers, or by the
\* first script.  Listing pages link to document 1 or to a page outside the
\* reading room; documents carry no attachment link and files can always
\* be written.
WalkAnchorLists == SeqsUpTo({0, 1}, MaxAnchors)
ContinuationScript == mode \in {"none", "year", "url"}
FirstScript == mode \in {"none", "orig"}

Next ==
  \/ ContinuationScript /\ \E y \in Years : StartYearMode(y)
  \/ ContinuationScript /\ \E su \in StartUrls : StartFromUrl(su)
  \/ FirstScript /\ StartOrig
  \/ Crash
  \/ Walker(WalkAnchorLists)
  \/ Harvester(Succeeds)

Spec == Init /\ [][Next]_vars

\* process_pdf of either script on one PDF file of up to MaxDocPages pages,
\* called again and again.
OnePdf == {f \in PdfFiles : f.stem = 1}

PageCounts == 0..MaxDocPages
OnePage == {1}

ExtractionSteps(counts) ==
  \/ OpenPdf(counts)
  \/ ExtractException
  \/ TryTextLayer
  \/ TryEasyOcr
  \/ OcrSetup
  \/ TryOcrConfig
  \/ ExtractReturns
  \/ WriteText(MayFail)
  \/ SaveOcrProgress

NextOcr ==
  \/ \E e \in {"easyocr", "tesseract"}, f \in OnePdf :
       NoCommand /\ ProcessPdf(e, f) /\ UNCHANGED runVars
  \/ ExtractionSteps(PageCounts)
  \/ OcrCrash

SpecOcr == Init /\ [][NextOcr]_vars

\* The commands of either script over the files of data/PDFs, one command
\* at a time: the sweep, "retry" and "single".  The documents have one page.
NextLedger ==
  \/ \E e \in {"easyocr", "tesseract"} : ProcessAllPdfs(e)
  \/ \E e \in {"easyocr", "tesseract"} : RetryFailed(e)
  \/ \E f \in PdfNames : ProcessSinglePdf(f)
  \/ NextPdf
  \/ CommandReturns
  \/ \E f \in PdfFiles : PdfRemoved(f)
  \/ ExtractionSteps(OnePage)
  \/ OcrCrash

SpecLedger == Init /\ [][NextLedger]_vars

\* chunk_text on its own: any text of up to MaxText characters, any window
\* with chunk_size > overlap >= 0.
InitChunk ==
  /\ InitBase
  /\ TEXT_DIR = [t \in TextNames |-> "absent"]
  /\ epc = "chunk"
  /\ clean_ocr_text \in Texts

NextChunk ==
  \E chunk_size \in 1..MaxChunk :
    \E overlap \in 0..(chunk_size - 1) : ChunkText(chunk_size, overlap)

SpecChunk == InitChunk /\ [][NextChunk]_vars

\* process_file on one text file that the extraction has written, with
\* every kind of metadata and of reply; files can always be written.
InitOneText ==
  /\ InitBase
  /\ TEXT_DIR = [t \in TextNames |-> IF t = 1 THEN "text" ELSE "absent"]
  /\ epc = "idle"
  /\ clean_ocr_text = <<>>

NumberedTexts == {Numbered(n) : n \in 1..MaxText}

NextBackend ==
  \/ StartEnrichment(Succeeds)
  \/ NextFile
  \/ ReadFile(Metas, NumberedTexts, Succeeds)
  \/ ChunkText(ChunkSize, Overlap)
  \/ SendChunk(Replies)
  \/ WriteOutput(Succeeds)
  \/ SaveEnrichProgress(Succeeds)
  \/ EnrichCrash

SpecBackend == InitOneText /\ [][NextBackend]_vars

\* The same with the snapshot load_metadata resolves being one the harvester
\* has written.
NextSnapshot ==
  \/ StartEnrichment(Succeeds)
  \/ NextFile
  \/ ReadFile(Snapshots, NumberedTexts, Succeeds)
  \/ ChunkText(ChunkSize, Overlap)
  \/ SendChunk(Replies)
  \/ WriteOutput(Succeeds)
  \/ SaveEnrichProgress(Succeeds)
  \/ EnrichCrash

SpecSnapshot == InitOneText /\ [][NextSnapshot]_vars

\* The sweep of main over the text files the extraction has left, whole or
\* empty: short and long texts, a backend that answers or times out, file
\* reads and writes that may raise.
InitTexts ==
  /\ InitBase
  /\ TEXT_DIR \in [TextNames -> {"text", "blank"}]
  /\ epc = "idle"
  /\ clean_ocr_text = <<>>

SweepTexts == {Numbered(1), Numbered(MaxText)}
SweepReplies == {Failure("timeout"), Failure("http_error"), Object("backend", "backend")}

NextEnrich ==
  \/ StartEnrichment(MayFail)
  \/ NextFile
  \/ ReadFile({NoMetadata}, SweepTexts, MayFail)
  \/ ChunkText(ChunkSize, Overlap)
  \/ SendChunk(SweepReplies)
  \/ WriteOutput(MayFail)
  \/ SaveEnrichProgress(MayFail)
  \/ EnrichCrash

SpecEnrich == InitTexts /\ [][NextEnrich]_vars

(* ------------------------------- claims -------------------------------- *)
\* a step taken by the running walker itself: neither an interruption of
\* the process nor an exception caught by the try of scrape_index_pages
WalkerStep == wpc' # "idle" /\ decision' # "exception"

HasLogRecord(u) == \E i \in 1..Len(STATUS_LOG) : STATUS_LOG[i].url = u
HasSnapshot(u) == META_DIR[doc_id(u)] # NoRecord

\* C1: scrape_document on a URL that is in the visited set (or, in the
\* continuation script, the unavailable set) changes nothing: no navigation
\* is started, no file of settings/ or data/ and neither set changes; and
\* no run ever starts processing a URL that is in the persisted visited set.
C1_KnownUrlIsNoOp ==
  [][ /\ ( /\ wpc = "harvest" /\ dpc = "none" /\ anchors # <<>>
           /\ Head(anchors) \in visited \cup unavailables
           /\ wpc' = "harvest" )
         => ( /\ dpc' = "none"
              /\ UNCHANGED diskVars
              /\ UNCHANGED setVars )
      /\ (dpc = "none" /\ dpc' = "load") => url' \notin VISITED_LOG
    ]_vars

\* a later run (the sets are reloaded from disk) has skipped a URL that an
\* earlier harvest logged
C1_Witness ==
  /\ outcome = "skipped"
  /\ visited = VISITED_LOG
  /\ visited # {}
  /\ Len(STATUS_LOG) = Cardinality(VISITED_LOG)
  /\ decision = "start"

\* C2 (as stated): a URL in the persisted visited set has its metadata
\* snapshot written and its record in the status log, at every point.
C2_VisitedOnlyAfterSnapshotAndLog ==
  \A u \in VISITED_LOG : HasSnapshot(u) /\ HasLogRecord(u)

\* C3 (as stated): when scrape_document ends in its except branch, the URL
\* is not in the persisted visited set, so that the next run takes it up
\* again.
C3_ExceptionLeavesUrlUnvisited ==
  [][ (dpc # "none" /\ dpc' = "none" /\ outcome' = "exception")
        => url \notin VISITED_LOG' ]_vars

\* the cursor as a restart of the same walker reads it
PersistedPage ==
  IF mode = "orig" THEN load_last_page(PAGINATION_STATE)
  ELSE get_progress(SCRAPE_PROGRESS, start_year)

\* C4: in all three walkers, from the navigation to a listing page until
\* the last of its documents is harvested, the persisted cursor of the year
\* is the page in progress.
C4_CursorIsPageInProgress ==
  wpc \in {"goto", "check", "anchors", "harvest"} =>
    /\ PersistedPage = page_num
    /\ mode # "orig" => SCRAPE_PROGRESS[start_year] = page_num

\* a document of page 1 is half harvested, the cursor says page 1
C4_Witness ==
  /\ mode = "year"
  /\ wpc = "harvest"
  /\ dpc = "log"
  /\ page_num = 1
  /\ SCRAPE_PROGRESS[start_year] = 1

\* C5 (as stated): a listing page that is not flagged unavailable and whose
\* resolved URL is off the search path makes the walker go to year+1, page
\* 0, persist that cursor and continue.
C5_OffSearchPathRollsOver ==
  [][ ( /\ wpc = "check" /\ ~page.unavail /\ ~HasSearchSite(page.url)
        /\ start_year < MaxYear
        /\ WalkerStep )
        => ( /\ start_year' = start_year + 1
             /\ page_num' = 0
             /\ SCRAPE_PROGRESS'[start_year + 1] = 0
             /\ wpc' = "loop" ) ]_vars

OnlyEntry2012 == [y \in Years |-> IF y = BaseYear THEN 0 ELSE NoEntry]
Entries2012And2013 == [y \in Years |-> IF y <= BaseYear + 1 THEN 0 ELSE NoEntry]

\* C6 (as stated): with the cursor {"2012": 0}, a listing page with the root
\* title and a URL that is no search URL gives {"2012": 0, "2013": 0} and the
\* walk goes on in 2013.
C6_RootTitleRollover ==
  [][ ( /\ wpc = "check" /\ ~page.unavail
        /\ page.title_root /\ ~HasSearch(page.url)
        /\ start_year = BaseYear /\ page_num = 0
        /\ SCRAPE_PROGRESS = OnlyEntry2012
        /\ WalkerStep )
        => ( /\ SCRAPE_PROGRESS' = Entries2012And2013
             /\ start_year' = BaseYear + 1
             /\ page_num' = 0
             /\ wpc' = "loop" ) ]_vars

NothingHarvested ==
  /\ dpc' = "none"
  /\ UNCHANGED <<VISITED_LOG, UNAVAILABLE_LOG, STATUS_LOG, META_DIR, PDF_DIR>>
  /\ UNCHANGED setVars

\* C7: no anchors and the root marker in the body: the walker goes to year+1,
\* page 0, writes that one cursor entry and leaves the others, harvests
\* nothing and continues at the top of its loop.
C7_MarkerRollover ==
  [][ ( /\ wpc = "anchors" /\ anchors = <<>> /\ page.root_marker
        /\ mode \in {"year", "url"}
        /\ WalkerStep )
        => ( /\ start_year' = start_year + 1
             /\ page_num' = 0
             /\ SCRAPE_PROGRESS' = [SCRAPE_PROGRESS EXCEPT ![start_year + 1] = 0]
             /\ SCRAPE_PROGRESS'[start_year] = SCRAPE_PROGRESS[start_year]
             /\ NothingHarvested
             /\ wpc' = "loop" ) ]_vars

C7_Witness ==
  /\ decision = "marker_rollover"
  /\ wpc = "loop"
  /\ start_year = BaseYear + 1
  /\ page_num = 0
  /\ SCRAPE_PROGRESS[BaseYear + 1] = 0
  /\ SCRAPE_PROGRESS[BaseYear] = 1

\* C8: no anchors and no root marker: the run ends there, the cursor file is
\* left as written before the fetch, at (year, page); and a run that has
\* ended fetches nothing more.
C8_NoLinksNoMarkerAborts ==
  [][ /\ ( /\ wpc = "anchors" /\ anchors = <<>> /\ ~page.root_marker
           /\ mode \in {"year", "url"}
           /\ wpc' # "idle" )
         => ( /\ wpc' = "done"
              /\ SCRAPE_PROGRESS' = SCRAPE_PROGRESS
              /\ SCRAPE_PROGRESS[start_year] = page_num
              /\ start_year' = start_year
              /\ search_url' = search_url )
      /\ wpc = "done" => (wpc' = "done" \/ decision' = "start")
    ]_vars

C8_Witness ==
  /\ wpc = "done"
  /\ decision = "no_links"
  /\ page_num = 1
  /\ SCRAPE_PROGRESS[start_year] = 1
  /\ search_url = ListingUrl(start_year, 1)

\* C9: the unavailable marker on a listing page: page+1 in the same year,
\* that cursor is written, nothing is harvested, the walk continues.
C9_UnavailablePageSkipped ==
  [][ ( /\ wpc = "check" /\ page.unavail
        /\ mode \in {"year", "url"}
        /\ WalkerStep )
        => ( /\ page_num' = page_num + 1
             /\ start_year' = start_year
             /\ SCRAPE_PROGRESS' = [SCRAPE_PROGRESS EXCEPT ![start_year] = page_num + 1]
             /\ NothingHarvested
             /\ wpc' = "loop" ) ]_vars

C9_Witness ==
  /\ decision = "skip_unavailable"
  /\ wpc = "loop"
  /\ page_num = 1
  /\ SCRAPE_PROGRESS[start_year] = 1

\* C10: in scrape_from_url the reload loop ends the run only on its last
\* attempt (attempt max_forced_reloads of max_forced_reloads); an earlier
\* attempt that fails is followed by another attempt, and an attempt whose
\* poll sees the search URL hands the page on to the checks, same year and
\* page, whatever was polled before.
C10_RedirectBudget ==
  [][ ( mode = "url" /\ wpc = "goto" /\ wpc' # "idle" )
        => ( /\ wpc' = "done" => ( /\ forced_reload = max_forced_reloads - 1
                                   /\ decision' \in {"redirect_terminal", "load_failed"} )
             /\ decision' = "redirect_terminal" => forced_reload + 1 = max_forced_reloads
             /\ forced_reload < max_forced_reloads - 1 => wpc' \in {"goto", "check"}
             /\ wpc' = "goto" => forced_reload' = forced_reload + 1
             /\ wpc' = "check" => ( /\ page_num' = page_num
                                    /\ start_year' = start_year
                                    /\ decision' = "loaded" ) ) ]_vars

\* the poll saw the root page on the first two attempts and the search URL
\* on the third: the page is with the checks
C10_Witness ==
  /\ mode = "url"
  /\ wpc = "check"
  /\ root_polled
  /\ forced_reload = max_forced_reloads - 1

\* page.goto raised while a listing page was being fetched
NavigationException ==
  /\ wpc = "goto"
  /\ decision' \in {"exception", "load_exception", "load_failed"}

RunEndsForGood == wpc = "done" => (wpc' = "done" \/ decision' = "start")

\* C11 (as stated): a navigation exception on a listing page ends the run:
\* no further listing page is fetched; the cursor file is what it was before
\* the fetch, the current year's entry being the page in progress.
C11_NavigationExceptionAbortsRun ==
  [][ /\ NavigationException
         => ( /\ wpc' = "done"
              /\ UNCHANGED <<SCRAPE_PROGRESS, PAGINATION_STATE>>
              /\ PersistedPage = page_num )
      /\ RunEndsForGood ]_vars

\* C11 (amended): a navigation exception leaves the cursor file as it was,
\* the current year's entry being the page in progress.  It ends the run in
\* scrape_index_pages; in scrape_from_url it ends the run on the last of the
\* max_forced_reloads attempts, and an earlier one is followed by another
\* attempt at the same listing URL.
C11_NavigationExceptionKeepsCursor ==
  [][ /\ NavigationException
         => ( /\ UNCHANGED <<SCRAPE_PROGRESS, PAGINATION_STATE>>
              /\ PersistedPage = page_num
              /\ mode # "orig" => SCRAPE_PROGRESS[start_year] = page_num
              /\ (mode \in {"year", "orig"} \/ forced_reload = max_forced_reloads - 1)
                   => wpc' = "done"
              /\ (mode = "url" /\ forced_reload < max_forced_reloads - 1)
                   => ( /\ wpc' = "goto"
                        /\ forced_reload' = forced_reload + 1
                        /\ search_url' = search_url
                        /\ <<start_year', page_num'>> = <<start_year, page_num>> ) )
      /\ RunEndsForGood ]_vars

\* scrape_from_url has given page 1 up after its last attempt raised
C11_Witness ==
  /\ mode = "url"
  /\ wpc = "done"
  /\ decision = "load_failed"
  /\ page_num = 1
  /\ SCRAPE_PROGRESS[start_year] = 1

\* C12 (as stated): a cursor entry greater than 0 becomes 0 only in the
\* rollover step that takes the walker from the year before into that year;
\* no start and no other walker step writes 0 over a positive entry.
C12_ResetOnlyByRollover ==
  [][ \A y \in Years :
        (SCRAPE_PROGRESS[y] > 0 /\ SCRAPE_PROGRESS'[y] = 0)
          => ( /\ decision' \in {"title_rollover", "marker_rollover"}
               /\ start_year = y - 1
               /\ start_year' = y ) ]_vars

\* C13: a document page with the unavailable marker: the URL joins the
\* unavailable set, which is written to its file; the URL does not join the
\* visited set, nothing is downloaded, no snapshot and no log record is
\* written; and no later harvest of the continuation script loads a URL
\* that is in the persisted unavailable set.
C13_UnavailableDocument ==
  [][ /\ (dpc = "load" /\ outcome' = "unavailable")
         => ( /\ unavailables' = unavailables \cup {url}
              /\ UNAVAILABLE_LOG' = unavailables'
              /\ url \notin visited' /\ url \notin VISITED_LOG'
              /\ UNCHANGED <<visited, VISITED_LOG, STATUS_LOG, META_DIR, PDF_DIR>>
              /\ downloaded_files = <<>> /\ ~requested
              /\ dpc' = "none" )
      /\ (mode # "orig" /\ dpc = "none" /\ dpc' = "load") => url' \notin UNAVAILABLE_LOG
    ]_vars

\* the continuation script has skipped a URL that it found unavailable
\* before and that was never visited
C13_Witness ==
  /\ mode = "year"
  /\ outcome = "skipped"
  /\ VISITED_LOG = {} /\ visited = {}
  /\ UNAVAILABLE_LOG # {}
  /\ STATUS_LOG = <<>>

\* the record d of the status log is backed by the files in directory dir
RecordBacked(d, dir) ==
  /\ d.downloaded => Len(d.downloaded_files) > 0
  /\ \A k \in 1..Len(d.downloaded_files) : dir[d.downloaded_files[k]] # NoFile
  /\ Len(d.downloaded_files) <= d.pdf_urls

\* C14: every record of the status log has downloaded only with a non-empty
\* downloaded_files, and every file it lists exists when the record is
\* written (and ever after); the list grows by a destination exactly when
\* download_pdf succeeded for it, that is when the file exists after the
\* call.
C14_LoggedFilesExist ==
  [][ /\ (dpc = "download" /\ dpc' \in {"download", "mark"})
         => LET filename == pdf_filename(url, idx, pdf_links) IN
              IF PDF_DIR'[filename] # NoFile
              THEN downloaded' /\ downloaded_files' = Append(downloaded_files, filename)
              ELSE downloaded' = downloaded /\ downloaded_files' = downloaded_files
      /\ (dpc = "log" /\ outcome' = "harvested")
         => ( /\ STATUS_LOG' = Append(STATUS_LOG, doc_record)
              /\ RecordBacked(doc_record, PDF_DIR) )
      /\ \A i \in 1..Len(STATUS_LOG') : RecordBacked(STATUS_LOG'[i], PDF_DIR')
    ]_vars

\* one logged document with every attachment on disk, one with none of its
\* attachments downloaded
C14_Witness ==
  /\ Len(STATUS_LOG) = 2
  /\ \E i, j \in 1..2 :
       /\ STATUS_LOG[i].downloaded
       /\ Len(STATUS_LOG[i].downloaded_files) = STATUS_LOG[i].pdf_urls
       /\ ~STATUS_LOG[j].downloaded
       /\ STATUS_LOG[j].pdf_urls > 0

\* C15: download_pdf on a destination that exists issues no request, leaves
\* the directory as it is and reports success (the path is listed); on a
\* missing destination it issues one; and a second call for the same link
\* and destination, the network answering as before, leaves the directory
\* as the first call left it.
C15_DownloadIdempotent ==
  [][ (dpc = "download" /\ dpc' \in {"download", "mark"})
        => LET filename == pdf_filename(url, idx, pdf_links)
               content == PdfContent(url, idx)
           IN /\ PDF_DIR[filename] # NoFile
                   => ( /\ ~requested'
                        /\ PDF_DIR' = PDF_DIR
                        /\ downloaded'
                        /\ downloaded_files' = Append(downloaded_files, filename) )
              /\ PDF_DIR[filename] = NoFile => requested'
              /\ \A f \in DOMAIN PDF_DIR : f # filename => PDF_DIR'[f] = PDF_DIR[f]
              /\ \A fetched \in BOOLEAN :
                   LET once == download_pdf(PDF_DIR, filename, content, fetched)
                       twice == download_pdf(once.dir, filename, content, fetched)
                   IN /\ twice.dir = once.dir
                      /\ once.ok => (twice.ok /\ ~twice.requested)
    ]_vars

\* the destination of the one attachment was on disk already, written for
\* another document: it is listed, kept as it was, and nothing was requested
C15_Witness ==
  /\ dpc = "mark"
  /\ pdf_links = 1
  /\ ~requested
  /\ downloaded_files = <<pdf_filename(url, 1, 1)>>
  /\ PDF_DIR[pdf_filename(url, 1, 1)] # PdfContent(url, 1)

\* the records of URL u in the status log
Records(log, u) == {i \in 1..Len(log) : log[i].url = u}

\* another URL with the doc_id of u has been harvested before
Collides(u) == META_DIR[doc_id(u)] # NoRecord /\ META_DIR[doc_id(u)].url # u

\* C16: when the snapshot of the doc_id belongs to another URL, writing the
\* second document's snapshot does not fail and replaces it; the harvest
\* goes on to the log, and once it is logged both URLs are in the visited
\* set and the log holds one record for each.
C16_CollisionOverwrites ==
  [][ /\ (dpc = "snapshot" /\ Collides(url) /\ wpc' # "idle")
         => ( /\ dpc' = "log"
              /\ META_DIR' = [META_DIR EXCEPT ![doc_id(url)] = doc_record]
              /\ META_DIR'[doc_id(url)].url = url )
      /\ (dpc = "log" /\ outcome' = "harvested")
         => \A other \in DocUrls \ {url} :
              (doc_id(other) = doc_id(url) /\ Records(STATUS_LOG, other) # {})
                => ( /\ {url, other} \subseteq VISITED_LOG'
                     /\ Cardinality(Records(STATUS_LOG', url)) = 1
                     /\ Cardinality(Records(STATUS_LOG', other)) = 1
                     /\ META_DIR'[doc_id(url)].url = url )
    ]_vars

\* documents 1 and 2 are both harvested, the snapshot is document 2's
C16_Witness ==
  /\ outcome = "harvested"
  /\ VISITED_LOG = {1, 2}
  /\ Len(STATUS_LOG) = 2
  /\ STATUS_LOG[1].url = 1 /\ STATUS_LOG[2].url = 2
  /\ doc_id(1) = doc_id(2)
  /\ META_DIR[doc_id(1)].url = 2

\* C17: every step leaves the lines of the status log where they are (the
\* old log is a prefix of the new one), and no URL has two records.
C17_LogAppendOnly ==
  [][ /\ Len(STATUS_LOG') >= Len(STATUS_LOG)
      /\ SubSeq(STATUS_LOG', 1, Len(STATUS_LOG)) = STATUS_LOG
      /\ \A u \in DocUrls : Cardinality(Records(STATUS_LOG', u)) <= 1
    ]_vars

\* two URLs are logged, a third is in the visited file without a record
\* (its snapshot or log write raised); a later run skips a known URL
C17_Witness ==
  /\ Len(STATUS_LOG) = 2
  /\ Cardinality(VISITED_LOG) = 3
  /\ visited = VISITED_LOG
  /\ outcome = "skipped"

\* C18: no step takes a URL out of the visited file or the unavailable
\* file; a step that changes one of the files leaves it holding the whole
\* in-memory set; and a mutation whose save returns has done so.
C18_SetsGrowOnly ==
  [][ /\ VISITED_LOG \subseteq VISITED_LOG'
      /\ UNAVAILABLE_LOG \subseteq UNAVAILABLE_LOG'
      /\ VISITED_LOG' # VISITED_LOG => VISITED_LOG' = visited'
      /\ UNAVAILABLE_LOG' # UNAVAILABLE_LOG => UNAVAILABLE_LOG' = unavailables'
      /\ (dpc = "mark" /\ dpc' = "snapshot")
           => (visited' = visited \cup {url} /\ VISITED_LOG' = visited')
      /\ (dpc = "load" /\ outcome' = "unavailable")
           => (unavailables' = unavailables \cup {url} /\ UNAVAILABLE_LOG' = unavailables')
      /\ (visited' # visited /\ wpc' = wpc) => visited \subseteq visited'
      /\ (unavailables' # unavailables /\ wpc' = wpc) => unavailables \subseteq unavailables'
    ]_vars

\* a later run, its sets loaded from the files, has just saved a second
\* visited URL next to an unavailable one
C18_Witness ==
  /\ dpc = "snapshot"
  /\ Cardinality(VISITED_LOG) = 2
  /\ Cardinality(UNAVAILABLE_LOG) = 1
  /\ visited = VISITED_LOG
  /\ unavailables = UNAVAILABLE_LOG

\* the acceptance rule as the specification states it: non-sentinel pages
\* over total pages at least 0.10, or at least 100 trimmed characters
SpecAccepts(tc) ==
  /\ Len(tc) > 0
  /\ \/ non_empty_pages(tc) * 100 >= Len(tc) * AcceptPercent
     \/ StrippedLen(tc) >= AcceptChars

\* C19 (as stated): extract_text_from_pdf returns the text exactly when the
\* document meets the acceptance rule, and the ledger entry becomes
\* completed exactly then; otherwise the document is a failure.
C19_AcceptanceThreshold ==
  [][ /\ (opc = "decide" /\ opc' # "idle")
         => (IsText(ocr_result') <=> SpecAccepts(text_content))
      /\ (opc = "record" /\ opc' = "done" /\ OCR_PROGRESS'[pdf] = "completed")
         => SpecAccepts(text_content)
    ]_vars

\* extract_text_robust returns in this step
PageReturns == Len(text_content') = Len(text_content) + 1

\* C20: on every page the methods are invoked in the order 1, 2, 3, 4, each
\* only after all before it raised or gave blank text; the method that
\* gives a text that is not blank ends the page with that text and nothing
\* is invoked after it; when the fourth has failed too the page text is a
\* failure marker, which is not empty; and no invocation makes the
\* extraction of the document fail.
C20_MethodOrder ==
  [][ /\ \A i \in 1..Len(invoked') : invoked'[i].method = i
      /\ \A i \in 1..(Len(invoked') - 1) : invoked'[i].gave \in {"raise", "blank"}
      /\ (invoked' # invoked /\ invoked' # <<>> /\ invoked'[Len(invoked')].gave = "text")
           => PageReturns
      /\ PageReturns
           => LET t == text_content'[Len(text_content')]
                  last == invoked'[Len(invoked')]
              IN /\ ~t.sentinel <=> last.gave = "text"
                 /\ t.sentinel => Len(invoked') = 4
                 /\ t.len - t.trail > 0
      /\ (opc = "page" /\ invoked' # invoked /\ opc' # "idle")
           => (opc' \in {"page", "decide"} /\ ocr_result' = ocr_result)
    ]_vars

\* a two-page document: the first page ended in a failure marker, on the
\* second the first three methods failed and the recognition found text
C20_Witness ==
  /\ opc = "decide"
  /\ Len(text_content) = 2
  /\ text_content[1].sentinel
  /\ ~text_content[2].sentinel
  /\ Len(invoked) = 4
  /\ invoked[4].gave = "text"
  /\ invoked[1].gave = "raise" /\ invoked[2].gave = "blank"

\* process_pdf is at work on its file
Extracting == {"open", "page", "decide", "write", "record"}

\* this step calls process_pdf: the extraction of pdf' begins, or the file
\* is reported as already processed
CallBegins ==
  /\ ~OcrRunning
  /\ to_process' # to_process \/ verb' # verb
  /\ pdf' # NoPdf
  /\ opc' = "open" \/ (opc' = "done" /\ ocr_result' = "skipped")

\* C21: whatever the command, a PDF file whose ledger status is completed
\* is skipped: no extraction runs for it, its text file is not rewritten and
\* a call of process_pdf on it leaves ledger and text files as they are.
\* The retry command takes exactly the failed entries of the ledger and
\* calls process_pdf for those, and only those, whose file exists; the
\* single command calls process_pdf for the named file and for no other.
C21_CompletedSkipped ==
  [][ /\ \A f \in PdfFiles :
           OCR_PROGRESS[f] = "completed"
             => /\ OCR_PROGRESS'[f] = "completed"
                /\ TEXT_DIR'[text_filename(f)] = TEXT_DIR[text_filename(f)]
                /\ ~(pdf' = f /\ opc' \in Extracting)
      /\ (CallBegins /\ ocr_result' = "skipped")
           => (OCR_PROGRESS[pdf'] = "completed" /\ UNCHANGED <<OCR_PROGRESS, TEXT_DIR>>)
      /\ (verb = "none" /\ verb' = "retry")
           => /\ {to_process'[i] : i \in 1..Len(to_process')} = failed(OCR_PROGRESS)
              /\ Len(to_process') = Cardinality(failed(OCR_PROGRESS))
      /\ (verb = "retry" /\ verb' = "retry" /\ to_process' # to_process)
           => /\ OCR_PROGRESS[Head(to_process)] = "failed"
              /\ to_process' = Tail(to_process)
              /\ Head(to_process) \in pdf_dir <=> (CallBegins /\ pdf' = Head(to_process))
              /\ Head(to_process) \notin pdf_dir => ~CallBegins
      /\ (verb = "retry" /\ CallBegins) => to_process' # to_process
      /\ verb' = "single"
           => (pdf' = named' /\ named' \in pdf_dir /\ to_process' = <<>>)
      /\ verb = "single" => ~CallBegins
    ]_vars

\* the retry command is at work on a failed file while the ledger has a
\* completed one, which it has not touched
C21_Witness ==
  /\ verb = "retry"
  /\ opc = "write"
  /\ OCR_PROGRESS[pdf] = "failed"
  /\ \E g \in PdfFiles : g # pdf /\ OCR_PROGRESS[g] = "completed"

\* the sweep of ocr_easyocr.py has just run backpropagate_completed_files
Backfilled == verb = "none" /\ verb' = "sweep" /\ engine' = "easyocr"

\* C22 (as stated): after the backfill every PDF file whose text file has
\* content that is not blank is completed in the ledger, whatever its entry
\* was, and the sweep does not extract it again; the entries of the other
\* files are as they were; a second backfill would change nothing.
C22_BackfillRepairsLedger ==
  [][ Backfilled
        => /\ \A f \in PdfFiles :
                IF TEXT_DIR[text_filename(f)] = "text"
                THEN /\ OCR_PROGRESS'[f] = "completed"
                     /\ \A i \in 1..Len(to_process') : to_process'[i] # f
                ELSE OCR_PROGRESS'[f] = OCR_PROGRESS[f]
           /\ backpropagate_completed_files(OCR_PROGRESS', TEXT_DIR') = OCR_PROGRESS'
    ]_vars

\* the files of a list
Listed(q) == {q[i] : i \in 1..Len(q)}

DropFirst(n, q) == SubSeq(q, n + 1, Len(q))
RECURSIVE Concat(_)
Concat(chs) == IF chs = <<>> THEN <<>> ELSE Head(chs) \o Concat(Tail(chs))
Rebuilt(chs, overlap) ==
  IF chs = <<>> THEN <<>>
  ELSE Head(chs) \o Concat([i \in 1..(Len(chs) - 1) |-> DropFirst(overlap, chs[i + 1])])

Chunked == epc = "send" /\ window # NoWindow

\* C24 (as stated): for every text and every window with chunk_size >
\* overlap >= 0 the chunks of chunk_text, put together again without the
\* overlaps, are the text; a text no longer than chunk_size gives exactly
\* one chunk, the text itself.
C24_ChunkRoundTrip ==
  Chunked
    => /\ Rebuilt(chunks, window.overlap) = clean_ocr_text
       /\ Len(clean_ocr_text) <= window.chunk_size => chunks = <<clean_ocr_text>>

\* C24 (amended): the same, but it is a text of at least one character and
\* no longer than chunk_size that gives exactly one chunk; the empty text
\* gives no chunk at all.
C24_ChunkRoundTripNonEmpty ==
  Chunked
    => /\ Rebuilt(chunks, window.overlap) = clean_ocr_text
       /\ (clean_ocr_text # <<>> /\ Len(clean_ocr_text) <= window.chunk_size)
            => chunks = <<clean_ocr_text>>
       /\ clean_ocr_text = <<>> => chunks = <<>>

\* a text of more than two windows, chunked with an overlap
C24_Witness ==
  /\ Chunked
  /\ Len(chunks) >= 3
  /\ window.overlap > 0
  /\ Rebuilt(chunks, window.overlap) = clean_ocr_text

\* process_file has written the record of its file and has not returned yet
Written == epc = "save" /\ success

\* the chunks in order with an empty line between one and the next
Separated(chs) ==
  Concat([i \in 1..Len(chs) |->
            IF i = 1 THEN chs[i] ELSE <<LineBreak, LineBreak>> \o chs[i]])

\* C25 (as stated): the body of the enriched record is the concatenation of
\* the chunk texts that were sent to the backend, in the order of sending,
\* each chunk once; nothing of it is the backend's output.
C25_BodyIsConcatenation ==
  Written
    => /\ posted = chunks
       /\ OUTPUT_DIR[txt_file].body = Concat(posted)

\* C25 (amended): the body of the enriched record is the chunk texts that
\* were sent to the backend, in the order of sending, each chunk once, with
\* an empty line (two line breaks) between one chunk and the next; nothing
\* of it is the backend's output, whatever body the backend's object had.
C25_BodyIsJoinedChunks ==
  Written
    => /\ posted = chunks
       /\ OUTPUT_DIR[txt_file].body = Separated(posted)
       /\ \A c \in Listed(OUTPUT_DIR[txt_file].body) :
            c \in Listed(clean_ocr_text) \cup {LineBreak}

\* the record of a text of three chunks is written, the backend's last
\* object had a body of its own
C25_Witness ==
  /\ Written
  /\ Len(posted) = 3
  /\ structured_data.body = "backend"
  /\ OUTPUT_DIR[txt_file].body = Separated(chunks)

\* replies of status 200 whose text is not the expected JSON object
Malformed == {"no_braces", "invalid_json", "missing_field"}

\* C26 (as stated): when the backend's reply has status 200 and its text has
\* no braces, has braces around invalid JSON or is JSON without a required
\* field, process_text_with_deepseek returns the fallback object: the chunk
\* is kept and the file does not fail because of it.
C26_MalformedGivesFallback ==
  response.kind \in Malformed
    => /\ structured_data.kind = "fallback"
       /\ corrected_chunks = posted
       /\ ~(epc = "save" /\ ~success)
       /\ PROGRESS_FILE[txt_file] # "failed"

\* process_text_with_deepseek has returned an object for the last chunk sent
Returned == structured_data.kind \in {"parsed", "fallback"}

\* C27 (as stated): in the object returned for a chunk, publication_date and
\* the era are the values derived from the metadata whenever the metadata
\* give one, whatever the backend returned; the backend's value is used only
\* when the metadata give none.
C27_MetadataPreferred ==
  Returned
    => /\ metadata # "none" => structured_data.publication_date = "metadata"
       /\ metadata = "dated" => structured_data.era = "metadata"
       /\ (metadata = "none" /\ structured_data.kind = "parsed")
            => structured_data.publication_date = response.publication_date
       /\ (metadata # "dated" /\ structured_data.kind = "parsed")
            => structured_data.era = response.era

\* C27 (amended): in the object parsed from the backend's reply,
\* publication_date is the reply's value whenever the reply has the field
\* and the value derived from the metadata (or none) only when it has not;
\* the era is the reply's value unless that is the string "null" and the
\* metadata give an era, which then replaces it.  In the fallback object
\* both are the values derived from the metadata, the era being "Unknown"
\* when the metadata give none.
C27_BackendPreferred ==
  Returned
    => IF structured_data.kind = "parsed"
       THEN /\ structured_data.publication_date =
                 (IF response.publication_date # "absent" THEN response.publication_date
                  ELSE IF metadata = "none" THEN "None" ELSE "metadata")
            /\ structured_data.era =
                 (IF response.era = "null" /\ metadata = "dated"
                  THEN "metadata" ELSE response.era)
       ELSE /\ structured_data.publication_date =
                 (IF metadata = "none" THEN "None" ELSE "metadata")
            /\ structured_data.era = (IF metadata = "dated" THEN "metadata" ELSE "Unknown")

\* the metadata give a date and an era; the reply had a date of its own,
\* which was kept, and the era "null", which was replaced
C27_Witness ==
  /\ structured_data.kind = "parsed"
  /\ metadata = "dated"
  /\ response.publication_date = "backend"
  /\ response.era = "null"
  /\ structured_data.publication_date = "backend"
  /\ structured_data.era = "metadata"

\* process_file is at work on txt_file, or main is about to record its result
InFile == {"read", "chunk", "send", "write", "save"}

\* the text files of the input directory
InputFiles == {t \in TextNames : TEXT_DIR[t] # "absent"}

\* C28: the progress map is written after every file: while main runs, the
\* map on disk is the map in memory; when main goes on after a file, the
\* map on disk has that file as completed or failed and its other entries
\* are as before; an entry once written stays.  The file main is at work
\* on has no entry on disk, so that after an interruption the next run
\* takes it again; and the file a run takes is the first of the listing
\* without an entry on disk, every file before it being passed over.
C28_Checkpointing ==
  [][ /\ epc' # "idle" => enrich_progress' = PROGRESS_FILE'
      /\ epc' \in InFile => PROGRESS_FILE'[txt_file'] = "none"
      /\ (epc = "save" /\ epc' = "loop")
           => /\ PROGRESS_FILE'[txt_file] = (IF success THEN "completed" ELSE "failed")
              /\ \A t \in TextNames \ {txt_file} : PROGRESS_FILE'[t] = PROGRESS_FILE[t]
      /\ \A t \in TextNames : PROGRESS_FILE[t] # "none" => PROGRESS_FILE'[t] = PROGRESS_FILE[t]
      /\ (epc = "loop" /\ epc' = "read")
           => /\ txt_file' \in InputFiles
              /\ \A t \in InputFiles :
                   t < txt_file' => PROGRESS_FILE[t] \in {"completed", "failed"}
    ]_vars

\* the second file is being read while the first has its entry on disk
C28_Witness ==
  /\ epc = "read"
  /\ txt_file = 2
  /\ PROGRESS_FILE[1] \in {"completed", "failed"}
  /\ PROGRESS_FILE[2] = "none"

\* the request timed out or could not be made, or the status was not 200
BackendFailures == {"timeout", "http_error"}

\* this step posts a chunk and the backend fails
BackendFails == epc = "send" /\ posted' # posted /\ response'.kind \in BackendFailures

\* C29: when the backend times out or answers with an error on a chunk,
\* process_file returns False there and main goes on: the chunks after it
\* are not sent and no record is written for the file; a record is only
\* ever written when every chunk of the file was sent and answered; main,
\* unless it is interrupted or cannot write the progress map, records the
\* file as failed and turns to the rest of the listing, of which it takes
\* the next file that has no entry.
C29_BackendFailureFailsFile ==
  [][ /\ BackendFails
           => /\ epc' = "save"
              /\ ~success'
              /\ txt_file' = txt_file
              /\ UNCHANGED <<OUTPUT_DIR, PROGRESS_FILE, input_files>>
      /\ (response.kind \in BackendFailures /\ txt_file' = txt_file)
           => UNCHANGED <<posted, OUTPUT_DIR, success>>
      /\ (response.kind \in BackendFailures /\ epc = "save" /\ epc' # "idle")
           => /\ PROGRESS_FILE'[txt_file] = "failed"
              /\ epc' = "loop"
              /\ input_files' = input_files
      /\ \A t \in TextNames :
           OUTPUT_DIR'[t] # OUTPUT_DIR[t]
             => /\ t = txt_file
                /\ posted = chunks
                /\ corrected_chunks = chunks
                /\ response.kind \notin BackendFailures
      /\ (epc = "loop" /\ epc' # "idle" /\ input_files # <<>>)
           => /\ input_files' = Tail(input_files)
              /\ PROGRESS_FILE[Head(input_files)] = "none"
                   => (txt_file' = Head(input_files) /\ epc' = "read")
    ]_vars

\* the second of three chunks of the first file timed out: the third was
\* not sent, there is no record, the file is failed in the progress map and
\* main is about to take the second file
C29_Witness ==
  /\ epc = "loop"
  /\ txt_file = 1
  /\ response.kind = "timeout"
  /\ Len(chunks) = 3
  /\ Len(posted) = 2
  /\ OUTPUT_DIR[1] = NoOutput
  /\ PROGRESS_FILE[1] = "failed"
  /\ input_files = <<2>>

\* scrape_document returns from its except branch
DocumentRaised == dpc # "none" /\ dpc' = "none" /\ outcome' = "exception"

\* C30 (as stated, for the harvester): an exception raised while a document
\* is processed is caught by scrape_document and becomes an entry for that
\* document in a ledger or in the log: after the return the URL is in the
\* visited or the unavailable file or has a record in the status log; the
\* walker is not ended by it and goes on with the anchors that are left.
C30_ExceptionBecomesEntry ==
  [][ DocumentRaised
        => /\ \/ url \in VISITED_LOG'
              \/ url \in UNAVAILABLE_LOG'
              \/ \E i \in 1..Len(STATUS_LOG') : STATUS_LOG'[i].url = url
           /\ wpc' = wpc
           /\ anchors' = anchors
    ]_vars

\* the set in memory of a process has every URL of the visited file
Covers == VISITED_LOG \subseteq visited
OtherCovers == VISITED_LOG \subseteq other_visited

\* this step is a write of the second process
OtherWrites == other_visited' # other_visited /\ other_pc = "run"

\* C31: while only one process works on the files, no URL leaves the
\* visited file, no snapshot is removed and the status log only grows, and
\* every URL with a record in the log is in the visited file.  A URL leaves
\* the visited file only when a process rewrites the file from a set that
\* did not have it, and the set of a running process comes to lack a URL
\* of the file only by a write of the other process made after the set was
\* loaded.
C31_SingleWriterOnly ==
  [][ /\ other_pc' = "idle"
           => /\ VISITED_LOG \subseteq VISITED_LOG'
              /\ UNAVAILABLE_LOG \subseteq UNAVAILABLE_LOG'
              /\ \A d \in DocIds : META_DIR[d] # NoRecord => META_DIR'[d] # NoRecord
              /\ SubSeq(STATUS_LOG', 1, Len(STATUS_LOG)) = STATUS_LOG
              /\ \A u \in DocUrls : HasLogRecord(u) => u \in VISITED_LOG
      /\ ~(VISITED_LOG \subseteq VISITED_LOG')
           => IF OtherWrites THEN ~OtherCovers ELSE (Running /\ ~Covers)
      /\ (Running /\ Covers /\ Running' /\ ~Covers') => OtherWrites
      /\ (other_pc = "run" /\ OtherCovers /\ ~OtherCovers') => (Running /\ visited' # visited)
      /\ (~Running /\ Running') => Covers'
      /\ (other_pc = "idle" /\ other_pc' = "run") => OtherCovers'
    ]_vars

\* a lost update: a URL that one process harvested and logged is no longer
\* in the visited file, the other process having rewritten the file
C31_Witness ==
  /\ other_pc = "run"
  /\ VISITED_LOG = other_visited
  /\ \E u \in DocUrls : HasLogRecord(u) /\ u \in visited /\ u \notin VISITED_LOG

\* the listing page that was fetched last carries the unavailable marker
\* and has resolved to a URL outside the search path
UnavailableElsewhere ==
  /\ wpc \in {"goto", "check"}
  /\ page.unavail
  /\ ~HasSearchSite(page.url)

\* the walker goes on without an exception of the next navigation
WalkerDecides ==
  /\ wpc' # "idle"
  /\ decision' \notin {"exception", "load_exception", "load_failed"}

\* C32 (as stated): in both walkers of the continuation script, when the
\* fetched listing page carries the unavailable marker and has resolved to
\* a URL outside the search path, the walker skips the page: the page
\* number goes up by one in the same year, and the walker neither ends the
\* run, nor rolls over to the next year, nor fetches the page again.
C32_UnavailableDecidedFirst ==
  [][ (mode \in {"year", "url"} /\ UnavailableElsewhere /\ WalkerDecides)
        => /\ decision' = "skip_unavailable"
           /\ wpc' = "loop"
           /\ start_year' = start_year
           /\ page_num' = page_num + 1
    ]_vars

\* this step is the top of the walk loop: the listing URL to fetch is formed
Fetches == wpc = "loop" /\ wpc' = "goto"

\* the walker has just rolled over to the next year
RolledOver == decision \in {"title_rollover", "marker_rollover"}

\* the URL is the listing URL of (year, pg); a URL without a page number is
\* that of page 0
IsListingOf(u, year, pg) ==
  /\ u.year = year
  /\ u.page = pg \/ (u.page = NoEntry /\ pg = 0)

\* C33 (as stated): in both walkers of the continuation script the listing
\* URL that is fetched is that of (year, page) with page the entry of year
\* in the cursor file; right after a rollover it is page 0 of the new year.
C33_FetchIsCursorPage ==
  [][ (mode \in {"year", "url"} /\ Fetches)
        => /\ IsListingOf(search_url', start_year',
                          get_progress(SCRAPE_PROGRESS', start_year'))
           /\ RolledOver => IsListingOf(search_url', start_year, 0)
    ]_vars

\* this step is one of a run of scrape_index_pages of the continuation script
YearModeStep == mode' = "year"

\* C34 (as stated): no step of a year-mode run makes the cursor entry of
\* any year smaller, a rollover into a year with a positive entry included.
C34_CursorNeverDecreases ==
  [][ YearModeStep
        => \A y \in Years : SCRAPE_PROGRESS'[y] >= SCRAPE_PROGRESS[y] ]_vars

\* C34 (amended): no step of a year-mode run makes the cursor entry of any
\* year smaller, except the rollover from year-1 into a year, which sets
\* the entry of that year to 0 whatever it was; no entry is removed.
C34_CursorDecreasesOnlyAtRollover ==
  [][ YearModeStep
        => \A y \in Years :
             /\ SCRAPE_PROGRESS[y] # NoEntry => SCRAPE_PROGRESS'[y] # NoEntry
             /\ SCRAPE_PROGRESS'[y] < SCRAPE_PROGRESS[y]
                  => /\ decision' \in {"title_rollover", "marker_rollover"}
                     /\ start_year = y - 1
                     /\ start_year' = y
                     /\ SCRAPE_PROGRESS'[y] = 0
    ]_vars

\* a year-mode walk has come to the end of its year, with the root marker
\* on a page without anchors, while the next year has a positive entry
C34_Witness ==
  /\ mode = "year"
  /\ wpc = "anchors"
  /\ anchors = <<>>
  /\ page.root_marker
  /\ start_year < MaxYear
  /\ SCRAPE_PROGRESS[start_year + 1] > 0

\* C35: in the ledger of the extraction an entry that is completed stays
\* completed: no sweep, retry, single command or backfill, of either
\* script, interrupted or not, makes it failed or removes it.
C35_CompletedIsAbsorbing ==
  [][ \A f \in PdfNames :
        OCR_PROGRESS[f] = "completed" => OCR_PROGRESS'[f] = "completed" ]_vars

\* the single command was given a file that is completed and has passed it
\* over, while another file of the ledger is failed
C35_Witness ==
  /\ verb = "single"
  /\ opc = "done"
  /\ ocr_result = "skipped"
  /\ OCR_PROGRESS[pdf] = "completed"
  /\ \E g \in PdfFiles : OCR_PROGRESS[g] = "failed"


\* C36: whenever the ledger of the extraction has a file as completed, the
\* text file of that file exists with content that is not blank, at every
\* point, interruptions between any two steps included.
C36_CompletedHasText ==
  \A f \in PdfNames : OCR_PROGRESS[f] = "completed" => TEXT_DIR[text_filename(f)] = "text"


\* process_file(.., filename) is called for t
Processes(t) == epc' = "read" /\ txt_file' = t

\* C37 (as stated): a file with an entry in the persisted progress map is
\* processed by no later run; each file is sent to the backend in at most one
\* run; a file recorded as failed stays failed and has no output file.
C37_AtMostOneRunPerFile ==
  [][ \A t \in TextNames :
        /\ PROGRESS_FILE[t] # "none" => ~Processes(t)
        /\ sent_in_runs'[t] # "several"
        /\ PROGRESS_FILE[t] = "failed" =>
             (PROGRESS_FILE'[t] = "failed" /\ OUTPUT_DIR'[t] = NoOutput) ]_vars

\* C37 (amended): a file with an entry in the persisted progress map,
\* completed or failed, is processed by no later run: from then on it is not
\* sent to the backend, its entry stays what it is and its output file, there
\* or not, is not written.
C37_EntryIsFinal ==
  [][ \A t \in TextNames :
        PROGRESS_FILE[t] # "none" =>
          /\ ~Processes(t)
          /\ sent_in_runs'[t] = sent_in_runs[t]
          /\ PROGRESS_FILE'[t] = PROGRESS_FILE[t]
          /\ OUTPUT_DIR'[t] = OUTPUT_DIR[t] ]_vars

\* a later run has passed over the first file, which two runs had sent to the
\* backend before it was recorded as failed, with the output file of the
\* first of them
C37_Witness ==
  /\ epc = "loop"
  /\ txt_file = NoText
  /\ Len(input_files) = NumPdfs - 1
  /\ PROGRESS_FILE[1] = "failed"
  /\ sent_in_runs[1] = "several"
  /\ OUTPUT_DIR[1] # NoOutput


\* where chunk i starts in the text when every chunk after the first starts
\* `overlap` characters before the end of the one before it
RECURSIVE StartOf(_, _, _)
StartOf(chs, overlap, i) ==
  IF i = 1 THEN 0 ELSE StartOf(chs, overlap, i - 1) + Len(chs[i - 1]) - overlap

\* C38: for every text and every window with chunk_size > overlap >= 0
\* chunk_text returns, after at most one turn per character, and then: an
\* empty text gives no chunk; every chunk is non-empty and at most chunk_size
\* long; every chunk but the last is exactly chunk_size long; each chunk
\* after the first starts exactly `overlap` characters before the end of the
\* chunk before it; the last chunk ends at the end of the text.
C38_ChunkShape ==
  Chunked =>
    LET n == Len(chunks)
        starts(i) == StartOf(chunks, window.overlap, i)
    IN /\ n <= Len(clean_ocr_text)
       /\ clean_ocr_text = <<>> => chunks = <<>>
       /\ \A i \in 1..n :
            /\ chunks[i] # <<>>
            /\ Len(chunks[i]) <= window.chunk_size
            /\ i < n => Len(chunks[i]) = window.chunk_size
            /\ chunks[i] = SubSeq(clean_ocr_text, starts(i) + 1, starts(i) + Len(chunks[i]))
       /\ n > 0 => starts(n) + Len(chunks[n]) = Len(clean_ocr_text)

\* a text chunked with an overlap into several chunks, the last one shorter
\* than the window
C38_Witness ==
  /\ Chunked
  /\ window.overlap > 0
  /\ Len(chunks) >= 2
  /\ Len(chunks[Len(chunks)]) < window.chunk_size


\* C39: when the snapshot resolved for a text file is a DocumentRecord of the
\* harvester whose field map has a 'Publication Date' entry, the publication
\* date the enrichment derives from the metadata is that entry's value, not
\* absent: it is what extract_publication_date gives and what an object
\* returned for a chunk carries when the backend gave no date of its own.
C39_HarvestedDateIsUsed ==
  (posted # <<>> /\ metadata \in Snapshots /\ "Publication Date" \in field_map_keys(metadata))
    => /\ extract_publication_date(metadata) # "None"
       /\ (Returned /\ response.publication_date = "absent")
            => structured_data.publication_date = "metadata"


\* the content of file f was fetched from one of the attachment links of record d
OwnContent(d, f) == \E j \in 1..d.pdf_urls : PDF_DIR[f] = PdfContent(d.url, j)

\* C40: every file listed in the downloaded_files of a record, of the status
\* log or of a snapshot, holds content fetched from one of the pdf_urls of
\* that record; no record has downloaded = true on the strength of a file
\* written for another document.
C40_ListedFilesAreOwn ==
  /\ \A i \in 1..Len(STATUS_LOG) :
       \A k \in 1..Len(STATUS_LOG[i].downloaded_files) :
         OwnContent(STATUS_LOG[i], STATUS_LOG[i].downloaded_files[k])
  /\ \A id \in DocIds :
       \A k \in 1..Len(META_DIR[id].downloaded_files) :
         OwnContent(META_DIR[id], META_DIR[id].downloaded_files[k])

============================================================================
